---- MODULE Spec2Model ----
(***************************************************************************)
(* Energy-driven procedural composition engine (projectflow).              *)
(*                                                                         *)
(* The module models                                                       *)
(*   - the energy controller of App.tsx (decay frame, key boost) and the   *)
(*     AudioEngine's copy of the energy (updateEnergy, energy-drop ramp);  *)
(*   - the StyleDirector state machine (onBar, startTransition,            *)
(*     forceStyle) with its four observer hooks;                           *)
(*   - the style interpolation function, computed in IEEE-754 binary64 as  *)
(*     JavaScript computes it;                                             *)
(*   - the catalog functions getCurrentChord and generateScaleWithOctaves  *)
(*     and the four trigger functions of rhythmTriggers.ts;                *)
(*   - the melody voices of a key event (melody.ts) and the callback of    *)
(*     the rhythm loop (rhythm.ts) with its drop effect.                   *)
(*                                                                         *)
(* Energy values are fixed-point numbers in units of 1/EnergyScale; every  *)
(* energy constant of constants.ts is a whole number of such units.        *)
(* Times are milliseconds (Date.now() and Tone.now() share one clock).     *)
(* Math.random() is a draw in thousandths, 0 <= r < 1000.                  *)
(***************************************************************************)
EXTENDS Integers, Sequences, FiniteSets, TLC

VARIABLES
    now,                 \* wall clock, ms
    lastFrame,           \* time of the last animation frame (browser rAF)
    isPlaying,           \* App isPlayingRef
    energyRef,           \* App energyRef.current
    keyTimestamps,       \* App keyTimestamps: key -> time of last accepted press
    triggerCount,        \* App triggerCount (melodic pulse counter)
    sparkleSignal,       \* App sparkleSignal (sparkle pulse counter)
    isInitialized,       \* AudioEngine.isInitialized
    transportState,      \* Tone.Transport.state
    transportStart,      \* time at which the transport was started, ms
    currentEnergy,       \* AudioEngine.currentEnergy
    energyDropInterval,  \* AudioEngine.energyDropInterval and its closure
    lastMelodyTime,      \* melody.ts lastMelodyTime
    pendingInits,        \* init() calls suspended at their await, oldest first
    rhythmLoops,         \* number of rhythm loops scheduled on the transport
    shortSteps,          \* number of short clock steps taken
    currentStyle,        \* StyleDirector.currentStyle (style id)
    barsInCurrentStyle,  \* StyleDirector.barsInCurrentStyle
    totalBars,           \* StyleDirector.totalBars
    transitionState,     \* StyleDirector.transitionState
    events,              \* observer hooks fired by the last operation, in order
    eventArgs,           \* the two style arguments of each of these hooks
    lastOp,              \* the last operation: its name, whether it took effect
                         \* (for startTransition and forceStyle: whether the
                         \* style argument was absent or in the catalog), the
                         \* energy passed to onBar and the Math.random() value
                         \* its transition check drew
    interp,              \* input and result of the last interpolation call
    voices,              \* melody voices triggered by the last key event
    call,                \* input and result of the last catalog or trigger call
    rhythm,              \* the rhythm loop: its closure variables and last hits
    riser                \* riser.isPlaying, the time its reset timeout is due
                         \* and the time of the last impact sound

clockVars == <<now, shortSteps>>
inputVars == <<keyTimestamps, triggerCount, sparkleSignal, lastMelodyTime>>
playVars == <<isPlaying, isInitialized, transportState, transportStart,
             pendingInits, rhythmLoops>>
directorVars == <<currentStyle, barsInCurrentStyle, totalBars, transitionState>>
vars == <<now, lastFrame, isPlaying, energyRef, keyTimestamps, triggerCount,
          sparkleSignal, isInitialized, transportState, currentEnergy,
          energyDropInterval, lastMelodyTime, pendingInits, rhythmLoops,
          shortSteps, currentStyle, barsInCurrentStyle, totalBars,
          transitionState, events, eventArgs, lastOp, interp, transportStart, voices,
          call, rhythm, riser>>

----------------------------------------------------------------------------
(* Bounds of the model *)

\* Date.now() when the page is loaded
StartTime == 1000
\* the two clock steps the environment may take
ShortStep == 50
LongStep == 750
\* the clock stops after this many milliseconds
MaxTime == 1600
\* number of short clock steps explored
MaxShortSteps == 1
\* number of init() calls that may be suspended at once
MaxPendingInits == 2
\* highest bar number notified to the director
MaxBar == 36
\* bars notified in SpecInterp
MaxInterpBar == 4
\* largest bar number of a getCurrentChord call
MaxChordBar == 35
\* largest octave of a generateScaleWithOctaves call
MaxOctave == 3
\* number of callbacks of the rhythm loop explored
MaxTicks == 14
\* largest tick count at which the getters of the beat counter are read
MaxSixteenthCount == 70
\* time between two animation frames, in ms
FramePeriod == 16
\* the animation frames stop after this many frames
MaxFrames == 660
\* largest bar number of a caller that notifies bars in any order
MaxAnyBar == 5
\* number of bars counted in one style under such a caller
MaxBarsInStyle == 34

Keys == {"a", "z"}
RandomDraws == {0, 49, 50, 125, 175, 250, 600, 900}
\* recorded when the transition check does not evaluate Math.random(); not a
\* value Math.random() returns
NoDraw == 1000

Min(a, b) == IF a < b THEN a ELSE b
Max(a, b) == IF a > b THEN a ELSE b
Abs(a) == IF a < 0 THEN -a ELSE a

----------------------------------------------------------------------------
(* constants.ts *)

EnergyScale == 100000

ENERGY_THRESHOLD_AWAKENING == 20000
ENERGY_THRESHOLD_GROOVE == 40000
ENERGY_THRESHOLD_FLOW == 60000
ENERGY_THRESHOLD_EUPHORIA == 80000

ENERGY_INPUT_BASE == 3500

\* multiplier in hundredths
ENERGY_RESISTANCE_ZONES ==
    << [min |-> 18000, max |-> 25000, multiplier |-> 50],
       [min |-> 38000, max |-> 45000, multiplier |-> 40],
       [min |-> 58000, max |-> 65000, multiplier |-> 35],
       [min |-> 78000, max |-> 85000, multiplier |-> 30] >>

ENERGY_DECAY_EUPHORIA == 60
ENERGY_DECAY_FLOW == 120
ENERGY_DECAY_GROOVE == 200
ENERGY_DECAY_AWAKENING == 350
ENERGY_DECAY_IDLE == 600

\* chances in thousandths
SPARKLE_CHANCE_IDLE == 50
SPARKLE_CHANCE_AWAKENING == 100
SPARKLE_CHANCE_GROOVE == 150
SPARKLE_CHANCE_FLOW == 200
SPARKLE_CHANCE_EUPHORIA == 300

SPARKLE_ENERGY_BONUS == 4000

\* the energy above which the melody adds its metallic voice (melody.ts)
ENERGY_VERY_HIGH == 90000

\* beats per minute of the transport
BPM == 128

\* App.tsx
MIN_KEY_INTERVAL == 50
\* melody.ts, in ms
MIN_MELODY_INTERVAL == 60

\* styles.ts TRANSITION_CONFIG
minBarsBeforeTransition == 16
maxBarsBeforeTransition == 32
transitionDurationBars == 2
energyDropTarget == 55000
energyDropDuration == 1500
\* period of the energy-drop setInterval, ms
EnergyDropPeriod == 16

STYLES == << "disco", "trance", "deep", "nudisco", "tech" >>
StyleIds == { STYLES[i] : i \in 1..Len(STYLES) }

----------------------------------------------------------------------------
(* Energy controller: App.tsx *)

getEnergyStage(energy) ==
    IF energy >= ENERGY_THRESHOLD_EUPHORIA THEN "euphoria"
    ELSE IF energy >= ENERGY_THRESHOLD_FLOW THEN "flow"
    ELSE IF energy >= ENERGY_THRESHOLD_GROOVE THEN "groove"
    ELSE IF energy >= ENERGY_THRESHOLD_AWAKENING THEN "awakening"
    ELSE "idle"

getSparkleChance(energy) ==
    IF energy >= ENERGY_THRESHOLD_EUPHORIA THEN SPARKLE_CHANCE_EUPHORIA
    ELSE IF energy >= ENERGY_THRESHOLD_FLOW THEN SPARKLE_CHANCE_FLOW
    ELSE IF energy >= ENERGY_THRESHOLD_GROOVE THEN SPARKLE_CHANCE_GROOVE
    ELSE IF energy >= ENERGY_THRESHOLD_AWAKENING THEN SPARKLE_CHANCE_AWAKENING
    ELSE SPARKLE_CHANCE_IDLE

\* variant of getDecayRate without decay at the idle stage
getDecayRateIdleHold(energy) ==
    IF energy >= ENERGY_THRESHOLD_EUPHORIA THEN ENERGY_DECAY_EUPHORIA
    ELSE IF energy >= ENERGY_THRESHOLD_FLOW THEN ENERGY_DECAY_FLOW
    ELSE IF energy >= ENERGY_THRESHOLD_GROOVE THEN ENERGY_DECAY_GROOVE
    ELSE IF energy >= ENERGY_THRESHOLD_AWAKENING THEN ENERGY_DECAY_AWAKENING
    ELSE 0

\* variant of getDecayRate with strict comparisons: an energy on a threshold
\* takes the rate of the stage below
getDecayRateStrict(energy) ==
    IF energy > ENERGY_THRESHOLD_EUPHORIA THEN ENERGY_DECAY_EUPHORIA
    ELSE IF energy > ENERGY_THRESHOLD_FLOW THEN ENERGY_DECAY_FLOW
    ELSE IF energy > ENERGY_THRESHOLD_GROOVE THEN ENERGY_DECAY_GROOVE
    ELSE IF energy > ENERGY_THRESHOLD_AWAKENING THEN ENERGY_DECAY_AWAKENING
    ELSE ENERGY_DECAY_IDLE

getDecayRate(energy) ==
    IF energy >= ENERGY_THRESHOLD_EUPHORIA THEN ENERGY_DECAY_EUPHORIA
    ELSE IF energy >= ENERGY_THRESHOLD_FLOW THEN ENERGY_DECAY_FLOW
    ELSE IF energy >= ENERGY_THRESHOLD_GROOVE THEN ENERGY_DECAY_GROOVE
    ELSE IF energy >= ENERGY_THRESHOLD_AWAKENING THEN ENERGY_DECAY_AWAKENING
    ELSE ENERGY_DECAY_IDLE

\* variant of ZonesAt whose loop starts at the second zone
ZonesAtFromSecond(energy) ==
    { i \in 2..Len(ENERGY_RESISTANCE_ZONES) :
        /\ energy >= ENERGY_RESISTANCE_ZONES[i].min
        /\ energy <= ENERGY_RESISTANCE_ZONES[i].max }

\* the zones that contain the energy; the loop of handleKeyDown takes the first
ZonesAt(energy) ==
    { i \in 1..Len(ENERGY_RESISTANCE_ZONES) :
        /\ energy >= ENERGY_RESISTANCE_ZONES[i].min
        /\ energy <= ENERGY_RESISTANCE_ZONES[i].max }

FirstZone(energy) == CHOOSE i \in ZonesAt(energy) : \A j \in ZonesAt(energy) : i <= j

\* variant of ResistedBoost whose zones have no upper end
ResistedBoostOpenZones(energy) ==
    LET above == { i \in 1..Len(ENERGY_RESISTANCE_ZONES) :
                     energy >= ENERGY_RESISTANCE_ZONES[i].min }
    IN IF above = {}
       THEN ENERGY_INPUT_BASE
       ELSE (ENERGY_INPUT_BASE
             * ENERGY_RESISTANCE_ZONES[CHOOSE i \in above : \A j \in above : i <= j].multiplier)
            \div 100

\* boost after the resistance loop of handleKeyDown
ResistedBoost(energy) ==
    IF ZonesAt(energy) = {}
    THEN ENERGY_INPUT_BASE
    ELSE (ENERGY_INPUT_BASE * ENERGY_RESISTANCE_ZONES[FirstZone(energy)].multiplier) \div 100

\* boost added by one accepted key event
KeyBoost(energy, isSparkle) ==
    ResistedBoost(energy) + (IF isSparkle THEN SPARKLE_ENERGY_BONUS ELSE 0)

\* variant of DecayStep without the clamp at 0
DecayStepUnclamped(energy) == energy - getDecayRate(energy)

\* energyRef after the decay statement of animate
DecayStep(energy) == Max(0, energy - getDecayRate(energy))

\* AudioEngine.updateEnergy: the clamp
ClampEnergy(v) == Max(0, Min(EnergyScale, v))

\* AudioEngine.updateEnergy(v); the effect updates behind it go to the backend
updateEnergy(v) == currentEnergy' = ClampEnergy(v)

----------------------------------------------------------------------------
(* Energy-drop ramp: AudioEngine.triggerEnergyDrop *)

NoInterval == [active |-> FALSE, startEnergy |-> 0, startTime |-> 0, lastFire |-> 0]

\* progress of the ramp in hundredths: Math.min(1, elapsed / dropDuration)
DropProgress(elapsed) == Min(100, (elapsed * 100) \div energyDropDuration)

\* 1 - (1 - progress)^2, in ten-thousandths
EaseOut(progress) == 10000 - (100 - progress) * (100 - progress)

\* the value one ramp tick writes while progress < 1
DropValue(startEnergy, progress) ==
    startEnergy - ((startEnergy - energyDropTarget) * EaseOut(progress)) \div 10000

\* triggerEnergyDrop(): replaces a running interval by a new one
triggerEnergyDrop ==
    energyDropInterval' = [active |-> TRUE, startEnergy |-> currentEnergy,
                           startTime |-> now, lastFire |-> now]

\* one callback of the interval set by triggerEnergyDrop
EnergyDropTick ==
    /\ energyDropInterval.active
    /\ now >= energyDropInterval.lastFire + EnergyDropPeriod
    /\ LET progress == DropProgress(now - energyDropInterval.startTime)
       IN IF progress >= 100
          THEN /\ energyDropInterval' = NoInterval
               /\ currentEnergy' = energyDropTarget
          ELSE /\ energyDropInterval' = [energyDropInterval EXCEPT !.lastFire = now]
               /\ currentEnergy' = DropValue(energyDropInterval.startEnergy, progress)
    /\ lastOp' = [op |-> "dropTick", ok |-> TRUE, arg |-> 0, draw |-> NoDraw]
    /\ UNCHANGED <<clockVars, lastFrame, energyRef, inputVars, playVars,
                   directorVars, events, eventArgs, interp, voices, call,
                   rhythm, riser>>

----------------------------------------------------------------------------
(* Style catalog: styles.ts *)

\* STYLES.find(s => s.id === id): the index of the style, 0 when there is none
FindStyle(id) ==
    IF id \in StyleIds THEN CHOOSE i \in 1..Len(STYLES) : STYLES[i] = id ELSE 0

\* variant of getRandomNextStyle that draws from the whole catalog
getRandomNextStyleAny(currentId, r) ==
    STYLES[((r * Len(STYLES)) \div 1000) + 1]

\* getRandomNextStyle(currentId) with Math.random() = r / 1000
getRandomNextStyle(currentId, r) ==
    LET available == SelectSeq(STYLES, LAMBDA s : s # currentId)
    IN available[((r * Len(available)) \div 1000) + 1]

----------------------------------------------------------------------------
(* JavaScript numbers: IEEE-754 binary64 values and their +, -, *, <.
   A number is (-1)^neg * mant * 2^exp with mant an odd natural number of at
   most 53 bits, kept as a sequence of 15-bit limbs, least significant first;
   zero has the empty mantissa.  The style values and their interpolants are
   far from the overflow and subnormal ranges, which are not modelled. *)

LimbBits == 15
LimbBase == 32768
MantissaBits == 53

RECURSIVE Pow2(_)
Pow2(n) == IF n = 0 THEN 1 ELSE 2 * Pow2(n - 1)

RECURSIVE Pow10(_)
Pow10(n) == IF n = 0 THEN 1 ELSE 10 * Pow10(n - 1)

RECURSIVE NatBitLen(_)
NatBitLen(n) == IF n = 0 THEN 0 ELSE 1 + NatBitLen(n \div 2)

Limb(a, i) == IF i <= Len(a) THEN a[i] ELSE 0

RECURSIVE BigStrip(_)
BigStrip(a) ==
    IF a # << >> /\ a[Len(a)] = 0 THEN BigStrip(SubSeq(a, 1, Len(a) - 1)) ELSE a

RECURSIVE BigFromNat(_)
BigFromNat(n) ==
    IF n = 0 THEN << >> ELSE << n % LimbBase >> \o BigFromNat(n \div LimbBase)

RECURSIVE BigAddFrom(_, _, _, _)
BigAddFrom(a, b, i, carry) ==
    IF i > Len(a) /\ i > Len(b)
    THEN BigFromNat(carry)
    ELSE LET sum == Limb(a, i) + Limb(b, i) + carry
         IN << sum % LimbBase >> \o BigAddFrom(a, b, i + 1, sum \div LimbBase)

BigAdd(a, b) == BigAddFrom(a, b, 1, 0)

\* a - b for a >= b
RECURSIVE BigSubFrom(_, _, _, _)
BigSubFrom(a, b, i, borrow) ==
    IF i > Len(a)
    THEN << >>
    ELSE LET d == a[i] - Limb(b, i) - borrow
         IN << (d + LimbBase) % LimbBase >>
            \o BigSubFrom(a, b, i + 1, IF d < 0 THEN 1 ELSE 0)

BigSub(a, b) == BigStrip(BigSubFrom(a, b, 1, 0))

RECURSIVE BigCmpFrom(_, _, _)
BigCmpFrom(a, b, i) ==
    IF i = 0 THEN 0
    ELSE IF a[i] > b[i] THEN 1
    ELSE IF a[i] < b[i] THEN -1
    ELSE BigCmpFrom(a, b, i - 1)

\* -1, 0 or 1 as a < b, a = b or a > b
BigCmp(a, b) ==
    IF Len(a) > Len(b) THEN 1
    ELSE IF Len(a) < Len(b) THEN -1
    ELSE BigCmpFrom(a, b, Len(a))

RECURSIVE BigMulSmallFrom(_, _, _, _)
BigMulSmallFrom(a, m, i, carry) ==
    IF i > Len(a)
    THEN BigFromNat(carry)
    ELSE LET prod == a[i] * m + carry
         IN << prod % LimbBase >> \o BigMulSmallFrom(a, m, i + 1, prod \div LimbBase)

\* a * m for m < LimbBase
BigMulSmall(a, m) == BigStrip(BigMulSmallFrom(a, m, 1, 0))

BigShiftLimbs(a, n) == IF a = << >> THEN a ELSE [i \in 1..n |-> 0] \o a

BigDropLimbs(a, n) == IF n >= Len(a) THEN << >> ELSE SubSeq(a, n + 1, Len(a))

RECURSIVE BigMulFrom(_, _, _)
BigMulFrom(a, b, i) ==
    IF i > Len(b)
    THEN << >>
    ELSE BigAdd(BigShiftLimbs(BigMulSmall(a, b[i]), i - 1), BigMulFrom(a, b, i + 1))

BigMul(a, b) == BigMulFrom(a, b, 1)

RECURSIVE BigDivSmallFrom(_, _, _, _)
BigDivSmallFrom(a, d, i, rem) ==
    IF i = 0
    THEN [q |-> << >>, r |-> rem]
    ELSE LET cur == rem * LimbBase + a[i]
             rest == BigDivSmallFrom(a, d, i - 1, cur % d)
         IN [q |-> Append(rest.q, cur \div d), r |-> rest.r]

\* quotient and remainder of a by d for 0 < d <= LimbBase
BigDivSmall(a, d) ==
    LET x == BigDivSmallFrom(a, d, Len(a), 0)
    IN [q |-> BigStrip(x.q), r |-> x.r]

\* a * 2^k
BigShl(a, k) ==
    BigShiftLimbs(BigMulSmall(a, Pow2(k % LimbBits)), k \div LimbBits)

\* floor(a / 2^k)
BigShr(a, k) ==
    BigDivSmall(BigDropLimbs(a, k \div LimbBits), Pow2(k % LimbBits)).q

BigBitLen(a) ==
    IF a = << >> THEN 0 ELSE LimbBits * (Len(a) - 1) + NatBitLen(a[Len(a)])

BigOdd(a) == a # << >> /\ a[1] % 2 = 1

RECURSIVE BigTrailingZeros(_)
BigTrailingZeros(a) ==
    IF a = << >> \/ BigOdd(a) THEN 0
    ELSE IF a[1] = 0 THEN LimbBits + BigTrailingZeros(BigDropLimbs(a, 1))
    ELSE 1 + BigTrailingZeros(BigShr(a, 1))

Zero == [neg |-> FALSE, mant |-> << >>, exp |-> 0]

DyadicShift(neg, mant, exp, tz) ==
    [neg |-> neg, mant |-> BigShr(mant, tz), exp |-> exp + tz]

\* the number (-1)^neg * mant * 2^exp in its form with an odd mantissa
Dyadic(neg, mant, exp) ==
    IF mant = << >> THEN Zero ELSE DyadicShift(neg, mant, exp, BigTrailingZeros(mant))

\* q is mant without its k lowest bits and c compares those bits with half a
\* unit of q: round up above the half, and on the half when q is odd
RoundUp(neg, q, exp, c) ==
    Dyadic(neg, IF c > 0 \/ (c = 0 /\ BigOdd(q)) THEN BigAdd(q, << 1 >>) ELSE q, exp)

RoundQuotient(neg, mant, exp, k, q) ==
    RoundUp(neg, q, exp + k,
            BigCmp(BigSub(mant, BigShl(q, k)), BigShl(<< 1 >>, k - 1)))

RoundBits(neg, mant, exp, k) ==
    IF k <= 0
    THEN Dyadic(neg, mant, exp)
    ELSE RoundQuotient(neg, mant, exp, k, BigShr(mant, k))

\* the binary64 value nearest to (-1)^neg * mant * 2^exp, ties to even
RoundToDouble(neg, mant, exp) ==
    RoundBits(neg, mant, exp, BigBitLen(mant) - MantissaBits)

\* d is the quotient and remainder of |n| * 2^64 by 10^k; a remainder leaves
\* a sticky bit below the quotient
DecimalQuotient(neg, d) ==
    RoundToDouble(neg, BigAdd(BigShl(d.q, 1), IF d.r = 0 THEN << >> ELSE << 1 >>), -65)

\* the value of the decimal literal n / 10^k, for k <= 4
Decimal(n, k) ==
    IF n = 0
    THEN Zero
    ELSE DecimalQuotient(n < 0, BigDivSmall(BigShl(BigFromNat(Abs(n)), 64), Pow10(k)))

Sign(a) == IF a.mant = << >> THEN 0 ELSE IF a.neg THEN -1 ELSE 1

MagCmp(a, b, e) == BigCmp(BigShl(a.mant, a.exp - e), BigShl(b.mant, b.exp - e))

\* -1, 0 or 1 as a < b, a = b or a > b
NumCmp(a, b) ==
    IF Sign(a) # Sign(b) THEN (IF Sign(a) > Sign(b) THEN 1 ELSE -1)
    ELSE IF Sign(a) = 0 THEN 0
    ELSE Sign(a) * MagCmp(a, b, Min(a.exp, b.exp))

NumLess(a, b) == NumCmp(a, b) < 0

NumLeq(a, b) == NumCmp(a, b) <= 0

NumNeg(a) == IF a.mant = << >> THEN a ELSE [a EXCEPT !.neg = ~a.neg]

\* the sum of (-1)^an * x * 2^e and (-1)^bn * y * 2^e, where c compares x and y
AddAligned(an, x, bn, y, e, c) ==
    IF an # bn /\ c = 0
    THEN Zero
    ELSE RoundToDouble(IF an = bn \/ c > 0 THEN an ELSE bn,
                       IF an = bn THEN BigAdd(x, y)
                       ELSE IF c > 0 THEN BigSub(x, y) ELSE BigSub(y, x),
                       e)

AddAt(a, b, e) ==
    AddAligned(a.neg, BigShl(a.mant, a.exp - e), b.neg, BigShl(b.mant, b.exp - e),
               e, MagCmp(a, b, e))

\* a + b
NumAdd(a, b) ==
    IF a.mant = << >> THEN b
    ELSE IF b.mant = << >> THEN a
    ELSE AddAt(a, b, Min(a.exp, b.exp))

\* a - b
NumSub(a, b) == NumAdd(a, NumNeg(b))

\* a * b
NumMul(a, b) ==
    IF a.mant = << >> \/ b.mant = << >>
    THEN Zero
    ELSE RoundToDouble(a.neg # b.neg, BigMul(a.mant, b.mant), a.exp + b.exp)

----------------------------------------------------------------------------
(* Style catalog: styles.ts.  Numbers are the binary64 values of the literals;
   the 0/1 entries of the pattern tables are kept as integers. *)

DISCO_HOUSE ==
    [ id |-> "disco",
      name |-> "Disco House",
      key |-> "A",
      mode |-> "minor",
      scale |-> << "A", "B", "C", "D", "E", "F", "G" >>,
      chordProgression |->
        << [name |-> "Am", root |-> "A1", notes |-> << "A", "C", "E" >>],
           [name |-> "F", root |-> "F1", notes |-> << "F", "A", "C" >>],
           [name |-> "C", root |-> "C2", notes |-> << "C", "E", "G" >>],
           [name |-> "G", root |-> "G1", notes |-> << "G", "B", "D" >>] >>,
      leadWaveform |-> "fatsquare",
      leadSpread |-> Decimal(25, 0),
      filterCutoff |-> Decimal(2000, 0),
      filterResonance |-> Decimal(2, 0),
      leadEnvelope |-> [attack |-> Decimal(1, 2), decay |-> Decimal(15, 2), sustain |-> Decimal(2, 1), release |-> Decimal(25, 2)],
      patterns |->
        [kick |-> << 1, 0, 0, 0, 1, 0, 0, 0, 1, 0, 0, 0, 1, 0, 0, 0 >>,
         bass |-> << 0, 0, 1, 0, 0, 0, 1, 0, 0, 0, 1, 0, 0, 0, 1, 0 >>,
         hihat |-> << 0, 1, 0, 1, 0, 1, 0, 1, 0, 1, 0, 1, 0, 1, 0, 1 >>,
         snare |-> << 0, 0, 0, 0, 1, 0, 0, 0, 0, 0, 0, 0, 1, 0, 0, 0 >>],
      kickStyle |-> "punchy",
      bassOctave |-> Decimal(1, 0),
      hihatStyle |-> "closed",
      swingAmount |-> Decimal(2, 2),
      reverbDecay |-> Decimal(25, 1),
      reverbWet |-> Decimal(25, 2),
      delayTime |-> "8n",
      delayFeedback |-> Decimal(2, 1),
      hueShift |-> Decimal(0, 0) ]

UPLIFTING_TRANCE ==
    [ id |-> "trance",
      name |-> "Uplifting Trance",
      key |-> "E",
      mode |-> "minor",
      scale |-> << "E", "F#", "G", "A", "B", "C", "D" >>,
      chordProgression |->
        << [name |-> "Em", root |-> "E1", notes |-> << "E", "G", "B" >>],
           [name |-> "C", root |-> "C2", notes |-> << "C", "E", "G" >>],
           [name |-> "G", root |-> "G1", notes |-> << "G", "B", "D" >>],
           [name |-> "D", root |-> "D2", notes |-> << "D", "F#", "A" >>] >>,
      leadWaveform |-> "fatsawtooth",
      leadSpread |-> Decimal(35, 0),
      filterCutoff |-> Decimal(3500, 0),
      filterResonance |-> Decimal(4, 0),
      leadEnvelope |-> [attack |-> Decimal(1, 3), decay |-> Decimal(8, 2), sustain |-> Decimal(0, 0), release |-> Decimal(15, 2)],
      patterns |->
        [kick |-> << 1, 0, 0, 0, 1, 0, 0, 1, 1, 0, 0, 0, 1, 0, 0, 1 >>,
         bass |-> << 1, 1, 1, 1, 1, 1, 1, 1, 1, 1, 1, 1, 1, 1, 1, 1 >>,
         hihat |-> << 1, 0, 1, 0, 1, 0, 1, 0, 1, 0, 1, 0, 1, 0, 1, 0 >>,
         snare |-> << 0, 0, 0, 0, 1, 0, 0, 0, 0, 0, 0, 0, 1, 0, 0, 0 >>],
      kickStyle |-> "hard",
      bassOctave |-> Decimal(1, 0),
      hihatStyle |-> "open",
      swingAmount |-> Decimal(0, 0),
      reverbDecay |-> Decimal(35, 1),
      reverbWet |-> Decimal(35, 2),
      delayTime |-> "4n",
      delayFeedback |-> Decimal(35, 2),
      hueShift |-> Decimal(-40, 0) ]

DEEP_HOUSE ==
    [ id |-> "deep",
      name |-> "Deep House",
      key |-> "D",
      mode |-> "minor",
      scale |-> << "D", "E", "F", "G", "A", "Bb", "C" >>,
      chordProgression |->
        << [name |-> "Dm", root |-> "D1", notes |-> << "D", "F", "A" >>],
           [name |-> "Bb", root |-> "Bb1", notes |-> << "Bb", "D", "F" >>],
           [name |-> "F", root |-> "F1", notes |-> << "F", "A", "C" >>],
           [name |-> "C", root |-> "C2", notes |-> << "C", "E", "G" >>] >>,
      leadWaveform |-> "triangle",
      leadSpread |-> Decimal(15, 0),
      filterCutoff |-> Decimal(1200, 0),
      filterResonance |-> Decimal(6, 0),
      leadEnvelope |-> [attack |-> Decimal(8, 2), decay |-> Decimal(3, 1), sustain |-> Decimal(4, 1), release |-> Decimal(5, 1)],
      patterns |->
        [kick |-> << 1, 0, 0, 0, 0, 0, 1, 0, 0, 0, 0, 0, 1, 0, 0, 0 >>,
         bass |-> << 1, 0, 0, 1, 0, 0, 0, 0, 0, 0, 1, 0, 0, 0, 0, 1 >>,
         hihat |-> << 1, 1, 1, 1, 1, 1, 1, 1, 1, 1, 1, 1, 1, 1, 1, 1 >>,
         snare |-> << 0, 0, 0, 0, 1, 0, 0, 1, 0, 0, 0, 0, 1, 0, 0, 0 >>],
      kickStyle |-> "soft",
      bassOctave |-> Decimal(1, 0),
      hihatStyle |-> "closed",
      swingAmount |-> Decimal(5, 2),
      reverbDecay |-> Decimal(4, 0),
      reverbWet |-> Decimal(4, 1),
      delayTime |-> "8n.",
      delayFeedback |-> Decimal(45, 2),
      hueShift |-> Decimal(30, 0) ]

NU_DISCO ==
    [ id |-> "nudisco",
      name |-> "Nu Disco",
      key |-> "C",
      mode |-> "major",
      scale |-> << "C", "D", "E", "F", "G", "A", "B" >>,
      chordProgression |->
        << [name |-> "C", root |-> "C2", notes |-> << "C", "E", "G" >>],
           [name |-> "Am", root |-> "A1", notes |-> << "A", "C", "E" >>],
           [name |-> "F", root |-> "F1", notes |-> << "F", "A", "C" >>],
           [name |-> "G", root |-> "G1", notes |-> << "G", "B", "D" >>] >>,
      leadWaveform |-> "fatsawtooth",
      leadSpread |-> Decimal(30, 0),
      filterCutoff |-> Decimal(4000, 0),
      filterResonance |-> Decimal(3, 0),
      leadEnvelope |-> [attack |-> Decimal(5, 3), decay |-> Decimal(1, 1), sustain |-> Decimal(1, 1), release |-> Decimal(2, 1)],
      patterns |->
        [kick |-> << 1, 0, 0, 0, 1, 0, 0, 0, 1, 0, 0, 0, 1, 0, 0, 0 >>,
         bass |-> << 1, 0, 1, 0, 0, 0, 1, 0, 0, 1, 0, 0, 1, 0, 0, 0 >>,
         hihat |-> << 1, 0, 1, 1, 1, 0, 1, 1, 1, 0, 1, 1, 1, 0, 1, 1 >>,
         snare |-> << 0, 0, 0, 0, 1, 0, 0, 0, 0, 0, 0, 0, 1, 0, 0, 0 >>],
      kickStyle |-> "punchy",
      bassOctave |-> Decimal(2, 0),
      hihatStyle |-> "open",
      swingAmount |-> Decimal(3, 2),
      reverbDecay |-> Decimal(2, 0),
      reverbWet |-> Decimal(2, 1),
      delayTime |-> "8n",
      delayFeedback |-> Decimal(25, 2),
      hueShift |-> Decimal(-60, 0) ]

TECH_HOUSE ==
    [ id |-> "tech",
      name |-> "Tech House",
      key |-> "G",
      mode |-> "minor",
      scale |-> << "G", "A", "Bb", "C", "D", "Eb", "F" >>,
      chordProgression |->
        << [name |-> "Gm", root |-> "G1", notes |-> << "G", "Bb", "D" >>],
           [name |-> "Eb", root |-> "Eb1", notes |-> << "Eb", "G", "Bb" >>],
           [name |-> "Bb", root |-> "Bb1", notes |-> << "Bb", "D", "F" >>],
           [name |-> "F", root |-> "F1", notes |-> << "F", "A", "C" >>] >>,
      leadWaveform |-> "fatsquare",
      leadSpread |-> Decimal(10, 0),
      filterCutoff |-> Decimal(800, 0),
      filterResonance |-> Decimal(8, 0),
      leadEnvelope |-> [attack |-> Decimal(1, 3), decay |-> Decimal(5, 2), sustain |-> Decimal(0, 0), release |-> Decimal(1, 1)],
      patterns |->
        [kick |-> << 1, 0, 0, 0, 1, 0, 0, 0, 1, 0, 0, 0, 1, 0, 0, 0 >>,
         bass |-> << 1, 0, 0, 0, 0, 0, 0, 1, 0, 0, 1, 0, 0, 0, 0, 0 >>,
         hihat |-> << 0, 0, 1, 0, 0, 0, 1, 0, 0, 0, 1, 0, 0, 0, 1, 0 >>,
         snare |-> << 0, 0, 0, 0, 1, 0, 0, 0, 0, 0, 0, 1, 1, 0, 0, 0 >>],
      kickStyle |-> "hard",
      bassOctave |-> Decimal(1, 0),
      hihatStyle |-> "closed",
      swingAmount |-> Decimal(0, 0),
      reverbDecay |-> Decimal(15, 1),
      reverbWet |-> Decimal(15, 2),
      delayTime |-> "16n",
      delayFeedback |-> Decimal(3, 1),
      hueShift |-> Decimal(50, 0) ]

\* the Style object whose id is in the catalog
StyleOf(id) ==
    CASE id = "disco" -> DISCO_HOUSE
      [] id = "trance" -> UPLIFTING_TRANCE
      [] id = "deep" -> DEEP_HOUSE
      [] id = "nudisco" -> NU_DISCO
      [] id = "tech" -> TECH_HOUSE

\* the fields of Style
StyleKeys == DOMAIN DISCO_HOUSE

\* the fields the interface types as number: typeof value === 'number'
NumberKeys ==
    { "leadSpread", "filterCutoff", "filterResonance", "bassOctave", "swingAmount",
      "reverbDecay", "reverbWet", "delayFeedback", "hueShift" }

\* the expression fromVal + (toVal - fromVal) * progress of both interpolations
Lerp(fromVal, toVal, progress) ==
    NumAdd(fromVal, NumMul(NumSub(toVal, fromVal), progress))

\* the expression progress < 0.5 ? fromVal : toVal of both interpolations
SwitchAtHalf(fromVal, toVal, progress) ==
    IF NumLess(progress, Decimal(5, 1)) THEN fromVal ELSE toVal

\* variant of interpolateStyleValue that still returns the from-value at 0.5
interpolateStyleValueLateSwitch(fromStyle, toStyle, progress, key) ==
    IF key \in NumberKeys
    THEN Lerp(fromStyle[key], toStyle[key], progress)
    ELSE IF NumLeq(progress, Decimal(5, 1)) THEN fromStyle[key] ELSE toStyle[key]

\* styleApplicator.ts interpolateStyleValue(fromStyle, toStyle, progress, key)
interpolateStyleValue(fromStyle, toStyle, progress, key) ==
    IF key \in NumberKeys
    THEN Lerp(fromStyle[key], toStyle[key], progress)
    ELSE SwitchAtHalf(fromStyle[key], toStyle[key], progress)

----------------------------------------------------------------------------
(* Catalog functions: styles.ts *)

\* variant of generateScaleWithOctaves whose outer loop stops before maxOctave
generateScaleWithOctavesShort(style, minOctave, maxOctave) ==
    LET RECURSIVE From(_)
        From(oct) ==
            IF oct >= maxOctave THEN << >>
            ELSE [i \in 1..Len(style.scale) |->
                    [note |-> style.scale[i], octave |-> oct]] \o From(oct + 1)
    IN From(minOctave)

\* generateScaleWithOctaves(style, minOctave, maxOctave): the outer loop over
\* the octaves, the inner loop over the scale; note + oct is kept as a pair
generateScaleWithOctaves(style, minOctave, maxOctave) ==
    LET RECURSIVE From(_)
        From(oct) ==
            IF oct > maxOctave THEN << >>
            ELSE [i \in 1..Len(style.scale) |->
                    [note |-> style.scale[i], octave |-> oct]] \o From(oct + 1)
    IN From(minOctave)

\* variant of getCurrentChord that moves on every second bar
getCurrentChordHalf(style, barNumber) ==
    style.chordProgression[((barNumber \div 2) % Len(style.chordProgression)) + 1]

\* getCurrentChord(style, barNumber), for a bar number that is a natural number
getCurrentChord(style, barNumber) ==
    style.chordProgression[((barNumber \div 4) % Len(style.chordProgression)) + 1]

----------------------------------------------------------------------------
(* Instrument triggers: rhythmTriggers.ts.  Velocities are exact, in units of
   1/VelocityScale; a pattern value is a number or undefined. *)

VelocityScale == 100000000

Stages == {"idle", "awakening", "groove", "flow", "euphoria"}

Undefined == [undef |-> TRUE, num |-> 0]
Num(n) == [undef |-> FALSE, num |-> n]

\* pattern[index] of a 16-slot pattern: undefined outside 0..15
PatternValueAt(pattern, index) ==
    IF index \in 0..(Len(pattern) - 1) THEN Num(pattern[index + 1]) ELSE Undefined

\* patternValue <= 0: false for undefined, which compares as NaN
LeqZero(patternValue) == ~patternValue.undef /\ patternValue.num <= 0

\* { shouldTrigger: false }
NoTrigger == [shouldTrigger |-> FALSE, velocity |-> 0, velocityIsNaN |-> FALSE,
              duration |-> "", note |-> ""]

Trigger(velocity, isNaN, duration, note) ==
    [shouldTrigger |-> TRUE, velocity |-> velocity, velocityIsNaN |-> isNaN,
     duration |-> duration, note |-> note]

\* variant of processKickTrigger whose idle mask lets every quarter note through
processKickTriggerIdleQuarters(ctx, patternValue) ==
    IF LeqZero(patternValue) THEN NoTrigger
    ELSE LET kickStyle == StyleOf(ctx.currentStyle).kickStyle
             styleVelocityMod == IF kickStyle = "soft" THEN 80
                                 ELSE IF kickStyle = "punchy" THEN 100 ELSE 115
             shouldKick ==
                 IF ctx.stage \in {"idle", "awakening"} THEN ctx.stepIndex % 4 = 0
                 ELSE TRUE
             kickVelocity ==
                 IF ctx.stage = "idle" THEN 500000
                 ELSE IF ctx.stage = "awakening" THEN 600000
                 ELSE 700000 + ctx.energy * 3
         IN IF shouldKick
            THEN Trigger(Min((3 * VelocityScale) \div 2, kickVelocity * styleVelocityMod),
                         FALSE, "8n", "C1")
            ELSE NoTrigger

\* processKickTrigger(ctx, patternValue)
processKickTrigger(ctx, patternValue) ==
    IF LeqZero(patternValue) THEN NoTrigger
    ELSE LET kickStyle == StyleOf(ctx.currentStyle).kickStyle
             styleVelocityMod == IF kickStyle = "soft" THEN 80
                                 ELSE IF kickStyle = "punchy" THEN 100 ELSE 115
             shouldKick ==
                 IF ctx.stage = "idle" THEN ctx.stepIndex = 0 \/ ctx.stepIndex = 8
                 ELSE IF ctx.stage = "awakening" THEN ctx.stepIndex % 4 = 0
                 ELSE TRUE
             kickVelocity ==
                 IF ctx.stage = "idle" THEN 500000
                 ELSE IF ctx.stage = "awakening" THEN 600000
                 ELSE 700000 + ctx.energy * 3
         IN IF shouldKick
            THEN Trigger(Min((3 * VelocityScale) \div 2, kickVelocity * styleVelocityMod),
                         FALSE, "8n", "C1")
            ELSE NoTrigger

\* processBassTrigger(ctx, patternValue)
processBassTrigger(ctx, patternValue) ==
    IF LeqZero(patternValue) THEN NoTrigger
    ELSE LET shouldTriggerBass ==
                 IF ctx.stage = "idle" THEN ctx.stepIndex = 0 /\ ctx.beat = 0
                 ELSE IF ctx.stage = "awakening" THEN ctx.stepIndex % 4 = 0
                 ELSE TRUE
             bassDuration ==
                 IF ctx.stage = "idle" THEN "1n"
                 ELSE IF ctx.stage = "awakening" THEN "4n"
                 ELSE IF ctx.currentStyle = "trance" THEN "16n" ELSE "8n"
             bassVelocity ==
                 IF ctx.stage = "idle" THEN 500000
                 ELSE IF ctx.stage = "awakening" THEN 600000
                 ELSE 600000 + ctx.energy * 3
         IN IF shouldTriggerBass
            THEN Trigger(bassVelocity * 100, FALSE, bassDuration, ctx.currentRoot)
            ELSE NoTrigger

\* processHihatTrigger(ctx, patternValue); the velocity starts from the
\* pattern value and is NaN when that is undefined
processHihatTrigger(ctx, patternValue) ==
    IF LeqZero(patternValue) THEN NoTrigger
    ELSE LET hihatStyle == StyleOf(ctx.currentStyle).hihatStyle
             shouldHihat ==
                 IF ctx.stage = "idle" THEN ctx.stepIndex % 4 = 0
                 ELSE IF ctx.stage = "awakening" THEN ctx.stepIndex % 2 = 0
                 ELSE TRUE
             tenths == patternValue.num * 10
                       + (IF ctx.stepIndex % 4 = 0 THEN 2 ELSE 0)
             hihatDuration ==
                 IF hihatStyle = "open" /\ (ctx.stepIndex = 2 \/ ctx.stepIndex = 10)
                 THEN "8n" ELSE "32n"
         IN IF shouldHihat
            THEN Trigger(IF patternValue.undef THEN 0
                         ELSE Min(VelocityScale,
                                  tenths * (400000 + ctx.energy * 6) * 10),
                         patternValue.undef, hihatDuration, "")
            ELSE NoTrigger

\* variant of processSnareTrigger whose guard lets the value 0 through
processSnareTriggerZero(ctx, patternValue) ==
    IF ~patternValue.undef /\ patternValue.num < 0 THEN NoTrigger
    ELSE IF ctx.stage \in {"groove", "flow", "euphoria"}
         THEN Trigger((500000 + ctx.energy * 4) * 100, FALSE, "16n", "")
         ELSE NoTrigger

\* processSnareTrigger(ctx, patternValue)
processSnareTrigger(ctx, patternValue) ==
    IF LeqZero(patternValue) THEN NoTrigger
    ELSE IF ctx.stage \in {"groove", "flow", "euphoria"}
         THEN Trigger((500000 + ctx.energy * 4) * 100, FALSE, "16n", "")
         ELSE NoTrigger

----------------------------------------------------------------------------
(* Rhythm loop: rhythm.ts startRhythmLoop.  Times of the audio clock are in
   units of 1/16 ms, in which a sixteenth note at 128 BPM lasts 1875 units;
   the audio clock and Date.now() share their origin. *)

CHORD_ROOTS == << "C2", "Ab1", "F1", "G1" >>

\* MIN_INTERVAL, in units of 1/16 ms
MIN_INTERVAL == [KICK |-> 1600, SNARE |-> 2400, HIHAT |-> 1280, BASS |-> 1600]

DROP_INTERVAL_BARS == 4
\* chances in thousandths
DROP_CHANCE == 250
\* in units of 1/16 ms
DROP_SILENCE_DURATION == 1600
SPARKLE_BACKGROUND_INTERVAL_BARS == 12
SPARKLE_BACKGROUND_CHANCE == 50
\* sparkle.ts, in units of 1/16 ms
MIN_SPARKLE_INTERVAL == 3200
SPARKLE_NOTES == << "C5", "E5", "G5", "C6", "E6", "G6" >>

\* length of a sixteenth note: 60000 / (4 * BPM) ms
SixteenthUnits == (16 * 15000) \div BPM

\* BeatCounter getters bar, beat, sixteenth, chordIndex and currentRoot on
\* sixteenthCount = n
barOf(n) == n \div 16
\* variant of beatOf that does not wrap at the bar
beatOfNoWrap(n) == n \div 4
beatOf(n) == (n % 16) \div 4
sixteenthOf(n) == n % 4
chordIndex(n) == (barOf(n) \div 4) % Len(CHORD_ROOTS)
currentRoot(n) == CHORD_ROOTS[chordIndex(n) + 1]

NoDrop == [active |-> FALSE, position |-> 0, tickTime |-> 0]

\* the closure of startRhythmLoop after the call, with the module variable
\* lastSparkleTime of sparkle.ts and the number of callbacks the transport
\* made since it started
NewRhythmLoop ==
    [sixteenthCount |-> 0, lastKick |-> 0, lastSnare |-> 0, lastHihat |-> 0,
     lastBass |-> 0, isDropActive |-> FALSE, pendingDrop |-> NoDrop,
     lastSparkleTime |-> 0, ticks |-> 0, hits |-> {}]

Hit(inst, note, duration, time, velocity) ==
    [inst |-> inst, note |-> note, duration |-> duration, time |-> time,
     velocity |-> velocity]

\* kick section: the velocity in hundredths, 0 when there is no kick
KickVelocity(stage, b, s) ==
    IF stage = "idle" THEN (IF s = 0 /\ (b = 0 \/ b = 2) THEN 50 ELSE 0)
    ELSE IF stage = "awakening" THEN (IF s = 0 THEN 65 ELSE 0)
    ELSE IF stage = "groove" THEN (IF s = 0 THEN 80 ELSE 0)
    ELSE IF stage = "flow"
         THEN (IF s = 0 THEN 90 ELSE IF s = 2 /\ b % 2 = 1 THEN 40 ELSE 0)
    ELSE (IF s = 0 THEN 100 ELSE IF s = 2 THEN 70 ELSE 0)

\* bass section: duration and velocity in hundredths, velocity 0 for no bass
BassNote(stage, b, s) ==
    IF stage = "idle"
    THEN (IF b = 0 /\ s = 0 THEN [duration |-> "1n", velocity |-> 50]
          ELSE [duration |-> "4n", velocity |-> 0])
    ELSE IF stage = "awakening"
    THEN (IF b = 0 /\ s = 0 THEN [duration |-> "2n", velocity |-> 60]
          ELSE [duration |-> "4n", velocity |-> 0])
    ELSE IF stage \in {"groove", "flow"}
    THEN (IF s = 2 THEN [duration |-> "8n", velocity |-> 75]
          ELSE [duration |-> "4n", velocity |-> 0])
    ELSE (IF s = 0 \/ s = 2 THEN [duration |-> "8n", velocity |-> 90]
          ELSE [duration |-> "4n", velocity |-> 0])

\* hi-hat section: duration and velocity in hundredths, velocity 0 for none
HihatNote(stage, b, s) ==
    IF stage = "idle"
    THEN [duration |-> "32n", velocity |-> IF s = 0 THEN 15 ELSE 0]
    ELSE IF stage = "awakening"
    THEN [duration |-> "32n", velocity |-> IF s % 2 = 0 THEN 30 ELSE 0]
    ELSE IF stage = "groove"
    THEN [duration |-> "32n", velocity |-> IF s % 2 = 0 THEN 45 ELSE 0]
    ELSE IF stage = "flow"
    THEN [duration |-> "32n", velocity |-> IF s % 2 = 0 THEN 55 ELSE 35]
    ELSE IF (b = 1 \/ b = 3) /\ s = 0
         THEN [duration |-> "8n", velocity |-> 80]
         ELSE [duration |-> "32n", velocity |-> IF s % 2 = 0 THEN 70 ELSE 45]

\* depth in dB below 0 of the sidechain duck after a kick
SidechainDepth(stage) ==
    IF stage = "awakening" THEN 6 ELSE IF stage = "groove" THEN 12
    ELSE IF stage = "flow" THEN 20 ELSE 30

\* variant of SnareVelocity that plays from the awakening stage on
SnareVelocityFromAwakening(stage, b, s) ==
    IF (b = 1 \/ b = 3) /\ s = 0 /\ stage # "idle"
    THEN (IF stage \in {"awakening", "groove"} THEN 50
          ELSE IF stage = "flow" THEN 70 ELSE 85)
    ELSE 0

\* snare section: the velocity in hundredths, 0 when there is no snare
SnareVelocity(stage, b, s) ==
    IF (b = 1 \/ b = 3) /\ s = 0 /\ stage \in {"groove", "flow", "euphoria"}
    THEN (IF stage = "groove" THEN 50 ELSE IF stage = "flow" THEN 70 ELSE 85)
    ELSE 0

\* the instrument hits of one callback at audio time `time`
TickHits(stage, n, time) ==
    LET b == beatOf(n)
        s == sixteenthOf(n)
        kick == KickVelocity(stage, b, s)
        bass == BassNote(stage, b, s)
        hihat == HihatNote(stage, b, s)
        snare == SnareVelocity(stage, b, s)
    IN [kick |-> IF time > rhythm.lastKick + MIN_INTERVAL.KICK /\ kick > 0
                 THEN {Hit("kick", "C1", "8n", time, kick)}
                      \cup (IF stage = "idle" THEN {}
                            ELSE {Hit("sidechain", "", "", time,
                                      SidechainDepth(stage))})
                 ELSE {},
        bass |-> IF time > rhythm.lastBass + MIN_INTERVAL.BASS /\ bass.velocity > 0
                 THEN {Hit("bass", currentRoot(n), bass.duration, time + 32,
                           bass.velocity)}
                 ELSE {},
        hihat |-> IF time > rhythm.lastHihat + MIN_INTERVAL.HIHAT /\ hihat.velocity > 0
                  THEN {Hit("hihat", "", hihat.duration, time + 64, hihat.velocity)}
                  ELSE {},
        snare |-> IF time > rhythm.lastSnare + MIN_INTERVAL.SNARE /\ snare > 0
                  THEN {Hit("snare", "", "16n", time + 48, snare)} ELSE {}]

\* the note Math.random() = r / 1000 picks from SPARKLE_NOTES, moved on by k
SparkleNote(r, k) ==
    SPARKLE_NOTES[(((r * Len(SPARKLE_NOTES)) \div 1000 + k) % Len(SPARKLE_NOTES)) + 1]

\* the bell notes of triggerSparkle at Tone.now() = time (1/16 ms)
SparkleHits(intensity, time, r1, r2) ==
    IF intensity = "low"
    THEN {Hit("bell", SparkleNote(r1, 0), "8n", time + 160, 40)}
    ELSE IF intensity = "medium"
    THEN {Hit("bell", SparkleNote(r1, 0), "8n", time + 160, 60),
          Hit("bell", SparkleNote(r2, 0), "16n", time + 160 + 1280, 50)}
    ELSE {Hit("bell", SparkleNote(r1, 0), "8n", time + 160, 70),
          Hit("bell", SparkleNote(r1, 1), "16n", time + 160 + 960, 60),
          Hit("bell", SparkleNote(r1, 2), "16n", time + 160 + 1920, 50)}

\* variant of SparkleThrottled with no minimum interval
SparkleNeverThrottled(time) == FALSE

\* triggerSparkle's throttle at Tone.now() = time (1/16 ms)
SparkleThrottled(time) == time - rhythm.lastSparkleTime < MIN_SPARKLE_INTERVAL

\* checkBackgroundSparkle at a bar start, with Math.random() = r / 1000 for the
\* chance and noteDraw / 1000 for the note: the bell hit of
\* triggerSparkle(sparkle, 'low'), if any; Tone.now() is the time of the tick
BackgroundSparkle(n, time, r, noteDraw) ==
    IF /\ sixteenthOf(n) = 0 /\ beatOf(n) = 0
       /\ barOf(n) % SPARKLE_BACKGROUND_INTERVAL_BARS = 0
       /\ ~(r > SPARKLE_BACKGROUND_CHANCE)
       /\ ~SparkleThrottled(time)
    THEN SparkleHits("low", time, noteDraw, noteDraw)
    ELSE {}

\* variant of DropStart that returns without counter.increment()
DropStartNoIncrement(time) ==
    [rhythm EXCEPT
        !.isDropActive = TRUE,
        !.pendingDrop = [active |-> TRUE,
                         position |-> time + DROP_SILENCE_DURATION,
                         tickTime |-> time],
        !.ticks = rhythm.ticks + 1,
        !.hits = {}]

\* the drop path of the callback: isDropActive = true, counter.increment(),
\* scheduleOnce at time + DROP_SILENCE_DURATION, return
DropStart(time) ==
    [rhythm EXCEPT
        !.isDropActive = TRUE,
        !.sixteenthCount = rhythm.sixteenthCount + 1,
        !.pendingDrop = [active |-> TRUE,
                         position |-> time + DROP_SILENCE_DURATION,
                         tickTime |-> time],
        !.ticks = rhythm.ticks + 1,
        !.hits = {}]

\* one callback of Tone.Transport.scheduleRepeat(..., '16n'): the transport
\* calls it for each sixteenth of its position, in order with the callbacks of
\* scheduleOnce.  r1 is the draw of the drop effect, r2 the draw of the
\* background sparkle, noteDraw its note.
RhythmTick(r1, r2, noteDraw) ==
    LET time == transportStart * 16 + rhythm.ticks * SixteenthUnits
        n == rhythm.sixteenthCount
        stage == getEnergyStage(currentEnergy)
        hits == TickHits(stage, n, time)
        bell == BackgroundSparkle(n, time, r2, noteDraw)
    IN /\ rhythmLoops > 0
       /\ transportState = "started"
       /\ rhythm.ticks < MaxTicks
       /\ rhythm.sixteenthCount < MaxSixteenthCount
       /\ rhythm.ticks * SixteenthUnits <= (now - transportStart) * 16
       /\ ~(/\ rhythm.pendingDrop.active
            /\ rhythm.pendingDrop.position < rhythm.ticks * SixteenthUnits)
       /\ IF /\ stage = "euphoria" /\ sixteenthOf(n) = 0 /\ beatOf(n) = 0
             /\ barOf(n) % DROP_INTERVAL_BARS = 0
             /\ r1 < DROP_CHANCE /\ ~rhythm.isDropActive
          THEN rhythm' = DropStart(time)
          ELSE rhythm' = [rhythm EXCEPT
                            !.lastKick = IF hits.kick # {} THEN time ELSE @,
                            !.lastBass = IF hits.bass # {} THEN time ELSE @,
                            !.lastHihat = IF hits.hihat # {} THEN time ELSE @,
                            !.lastSnare = IF hits.snare # {} THEN time ELSE @,
                            !.lastSparkleTime = IF bell # {} THEN time ELSE @,
                            !.sixteenthCount = n + 1,
                            !.ticks = rhythm.ticks + 1,
                            !.hits = hits.kick \cup hits.bass \cup hits.hihat
                                     \cup hits.snare \cup bell]
       /\ lastOp' = [op |-> "rhythmTick", ok |-> TRUE, arg |-> currentEnergy,
                     draw |-> NoDraw]
       /\ UNCHANGED <<clockVars, lastFrame, energyRef, inputVars, playVars,
                      currentEnergy, energyDropInterval, directorVars,
                      events, eventArgs,
                      interp, voices, call, riser>>

\* the callback of Tone.Transport.scheduleOnce set by the drop effect: it runs
\* when the transport position reaches the audio time of the drop tick plus
\* DROP_SILENCE_DURATION
DropKick ==
    LET t == transportStart * 16 + rhythm.pendingDrop.position
    IN /\ rhythm.pendingDrop.active
       /\ transportState = "started"
       /\ rhythm.pendingDrop.position <= (now - transportStart) * 16
       /\ rhythm.pendingDrop.position <= rhythm.ticks * SixteenthUnits
       /\ IF rhythm.pendingDrop.tickTime > rhythm.lastKick + MIN_INTERVAL.KICK
          THEN rhythm' = [rhythm EXCEPT
                            !.lastKick = t, !.isDropActive = FALSE,
                            !.pendingDrop = NoDrop,
                            !.hits = {Hit("kick", "C1", "8n", t, 150)}]
          ELSE rhythm' = [rhythm EXCEPT
                            !.isDropActive = FALSE, !.pendingDrop = NoDrop,
                            !.hits = {}]
       /\ lastOp' = [op |-> "dropKick", ok |-> TRUE, arg |-> 0, draw |-> NoDraw]
       /\ UNCHANGED <<clockVars, lastFrame, energyRef, inputVars, playVars,
                      currentEnergy, energyDropInterval, directorVars,
                      events, eventArgs,
                      interp, voices, call, riser>>

----------------------------------------------------------------------------
(* Calls of the catalog functions, the trigger functions and the getters of
   the beat counter *)

\* no catalog or trigger call was made
NoCall == [fn |-> "none", style |-> "", a |-> 0, b |-> 0, stage |-> "",
           energy |-> 0, pattern |-> Undefined, done |-> FALSE, result |-> << >>]

\* the TriggerContext of a trigger call
CallContext ==
    [stepIndex |-> call.a, beat |-> call.b, energy |-> call.energy,
     stage |-> call.stage, currentStyle |-> call.style,
     currentRoot |-> getCurrentChord(StyleOf(call.style), 0).root]

\* the value a call returns
CallResult ==
    IF call.fn = "BeatCounter"
    THEN [bar |-> barOf(call.a), beat |-> beatOf(call.a),
          sixteenth |-> sixteenthOf(call.a), chordIndex |-> chordIndex(call.a),
          currentRoot |-> currentRoot(call.a)]
    ELSE IF call.fn = "getCurrentChord"
    THEN getCurrentChord(StyleOf(call.style), call.a)
    ELSE IF call.fn = "generateScaleWithOctaves"
    THEN generateScaleWithOctaves(StyleOf(call.style), call.a, call.b)
    ELSE IF call.fn = "processKickTrigger"
    THEN processKickTrigger(CallContext, call.pattern)
    ELSE IF call.fn = "processBassTrigger"
    THEN processBassTrigger(CallContext, call.pattern)
    ELSE IF call.fn = "processHihatTrigger"
    THEN processHihatTrigger(CallContext, call.pattern)
    ELSE processSnareTrigger(CallContext, call.pattern)

\* one call of the function call.fn names, on the arguments in call
Call(fn) ==
    /\ call.fn = fn
    /\ ~call.done
    /\ call' = [call EXCEPT !.done = TRUE, !.result = CallResult]
    /\ lastOp' = [op |-> fn, ok |-> TRUE, arg |-> 0, draw |-> NoDraw]
    /\ UNCHANGED <<clockVars, lastFrame, energyRef, inputVars, playVars,
                   currentEnergy, energyDropInterval, directorVars, events,
                   eventArgs, interp, voices, rhythm, riser>>

----------------------------------------------------------------------------
(* Riser: audio/riser *)

NoRiser == [isPlaying |-> FALSE, resetAt |-> 0, lastImpact |-> 0]

\* the duration AudioEngine passes to triggerRiser, in ms:
\* Math.min(transitionDurationBars * 60 / BPM * 2, 2.5) s
RiserDuration == Min((transitionDurationBars * 60 * 2 * 1000) \div BPM, 2500)

\* triggerRiser(riser, duration): sets isPlaying and arms the timeout that
\* resets it duration * 1000 + 500 ms later
triggerRiser ==
    IF riser.isPlaying \/ transportState # "started"
    THEN UNCHANGED riser
    ELSE riser' = [riser EXCEPT !.isPlaying = TRUE,
                                !.resetAt = now + RiserDuration + 500]

\* triggerImpact(riser): the noise synth sounds at Tone.now(), unless the
\* transport is not started
triggerImpact ==
    IF transportState # "started"
    THEN UNCHANGED riser
    ELSE riser' = [riser EXCEPT !.lastImpact = now]

----------------------------------------------------------------------------
(* StyleDirector: styleDirector.ts *)

NoTransition == [isTransitioning |-> FALSE, progress |-> 0,
                 fromStyle |-> "", toStyle |-> "", startBar |-> 0]

\* identifiers a caller may pass: the catalog, an unknown id, and none ("")
StyleArgs == StyleIds \cup {"", "bogus"}
\* energies a caller may pass to onBar
BarEnergies == {0, 79999, 80000}

\* constructor: new StyleDirector(initialStyleId)
InitialStyle(initialStyleId) ==
    IF initialStyleId # "" /\ FindStyle(initialStyleId) # 0
    THEN initialStyleId
    ELSE STYLES[1]

\* destination of startTransition(targetStyleId)
TransitionTarget(fromStyle, targetStyleId, r) ==
    IF targetStyleId # "" /\ FindStyle(targetStyleId) # 0
    THEN targetStyleId
    ELSE getRandomNextStyle(fromStyle, r)

\* the transition object startTransition creates when totalBars = bar
NewTransition(bar, targetStyleId, r) ==
    [isTransitioning |-> TRUE, progress |-> 0, fromStyle |-> currentStyle,
     toStyle |-> TransitionTarget(currentStyle, targetStyleId, r), startBar |-> bar]

\* variant of StartArgs that hands over the two styles in the other order
StartArgsSwapped(transition) ==
    << <<transition.toStyle, transition.fromStyle>>, <<"", "">> >>

\* the arguments of the hooks startTransition fires: onTransitionStart(fromStyle,
\* toStyle), then onEnergyDrop()
StartArgs(transition) ==
    << <<transition.fromStyle, transition.toStyle>>, <<"", "">> >>

\* the callbacks AudioEngine.setupStyleDirectorCallbacks registers for
\* transition-start and energy-drop; none are registered before init()
StartCallbacks ==
    IF isInitialized
    THEN triggerRiser /\ triggerEnergyDrop
    ELSE UNCHANGED <<energyDropInterval, riser>>

\* the callback AudioEngine.setupStyleDirectorCallbacks registers for
\* onTransitionComplete, once init() has run: the impact sound
CompleteCallbacks ==
    IF isInitialized
    THEN triggerImpact
    ELSE UNCHANGED riser

\* variant of TransitionProgress that completes one bar late
TransitionProgressLate(barNumber, startBar) ==
    Min(1000, ((barNumber - startBar) * 1000) \div (transitionDurationBars + 1))

\* progress in thousandths: Math.min(1, barsSinceStart / transitionDurationBars)
TransitionProgress(barNumber, startBar) ==
    Min(1000, ((barNumber - startBar) * 1000) \div transitionDurationBars)

\* transitionChance of checkTransitionTrigger, in units of 1/16000
transitionChance(bars) ==
    IF bars >= minBarsBeforeTransition
    THEN 50 * (maxBarsBeforeTransition - minBarsBeforeTransition)
         + Min(maxBarsBeforeTransition - minBarsBeforeTransition,
               bars - minBarsBeforeTransition) * 150
    ELSE 0

\* variant of ShouldTransition whose forced transition comes one bar late
ShouldTransitionLateForce(bars, energy, r) ==
    \/ /\ energy >= 80000
       /\ bars >= minBarsBeforeTransition
       /\ r * (maxBarsBeforeTransition - minBarsBeforeTransition) < transitionChance(bars)
    \/ bars > maxBarsBeforeTransition

\* variant of ShouldTransition without the minimum-bars condition
ShouldTransitionEarly(bars, energy, r) ==
    \/ /\ energy >= 80000
       /\ r * 16 < 50 * (maxBarsBeforeTransition - minBarsBeforeTransition)
    \/ bars >= maxBarsBeforeTransition

\* variant of ShouldTransition whose chance stays at the base chance
ShouldTransitionFlatChance(bars, energy, r) ==
    \/ /\ energy >= 80000
       /\ bars >= minBarsBeforeTransition
       /\ r < 50
    \/ bars >= maxBarsBeforeTransition

\* variant of ShouldTransition without the forced transition at the maximum
ShouldTransitionNoForce(bars, energy, r) ==
    /\ energy >= 80000
    /\ bars >= minBarsBeforeTransition
    /\ r * 16 < transitionChance(bars)

\* the condition of checkTransitionTrigger with Math.random() = r / 1000
ShouldTransition(bars, energy, r) ==
    \/ /\ energy >= 80000
       /\ bars >= minBarsBeforeTransition
       /\ r * (maxBarsBeforeTransition - minBarsBeforeTransition) < transitionChance(bars)
    \/ bars >= maxBarsBeforeTransition

\* variant of completeTransition that keeps counting the bars of the old style
completeTransitionKeepBars ==
    /\ currentStyle' = transitionState.toStyle
    /\ barsInCurrentStyle' = barsInCurrentStyle + 1
    /\ transitionState' = NoTransition
    /\ events' = << "styleChange", "transitionComplete" >>
    /\ eventArgs' = << <<transitionState.toStyle, currentStyle>>,
                       <<transitionState.toStyle, "">> >>
    /\ CompleteCallbacks
    /\ UNCHANGED energyDropInterval

\* completeTransition()
completeTransition ==
    /\ currentStyle' = transitionState.toStyle
    /\ barsInCurrentStyle' = 0
    /\ transitionState' = NoTransition
    /\ events' = << "styleChange", "transitionComplete" >>
    /\ eventArgs' = << <<transitionState.toStyle, currentStyle>>,
                       <<transitionState.toStyle, "">> >>
    /\ CompleteCallbacks
    /\ UNCHANGED energyDropInterval

\* updateTransition(barNumber), called by onBar after barsInCurrentStyle++
updateTransition(barNumber) ==
    LET progress == TransitionProgress(barNumber, transitionState.startBar)
    IN IF progress >= 1000
       THEN completeTransition
       ELSE /\ transitionState' = [transitionState EXCEPT !.progress = progress]
            /\ barsInCurrentStyle' = barsInCurrentStyle + 1
            /\ events' = << >>
            /\ eventArgs' = << >>
            /\ UNCHANGED <<currentStyle, energyDropInterval, riser>>

\* checkTransitionTrigger(energy), called by onBar after totalBars = barNumber
\* and barsInCurrentStyle++; r1 and r2 are the draws of Math.random()
checkTransitionTrigger(barNumber, energy) ==
    /\ barsInCurrentStyle' = barsInCurrentStyle + 1
    /\ UNCHANGED currentStyle
    /\ \E r1 \in RandomDraws :
         /\ lastOp' = [op |-> "onBar", ok |-> TRUE, arg |-> energy,
                       draw |-> IF /\ energy >= 80000
                                   /\ barsInCurrentStyle + 1 >= minBarsBeforeTransition
                                THEN r1 ELSE NoDraw]
         /\ IF ShouldTransition(barsInCurrentStyle + 1, energy, r1)
            THEN /\ \E r2 \in RandomDraws :
                      transitionState' = NewTransition(barNumber, "", r2)
                 /\ events' = << "transitionStart", "energyDrop" >>
                 /\ eventArgs' = StartArgs(transitionState')
                 /\ StartCallbacks
            ELSE /\ events' = << >>
                 /\ eventArgs' = << >>
                 /\ UNCHANGED <<transitionState, energyDropInterval, riser>>

\* onBar(barNumber, energy)
OnBar(barNumber, energy) ==
    /\ totalBars' = barNumber
    /\ IF transitionState.isTransitioning
       THEN /\ updateTransition(barNumber)
            /\ lastOp' = [op |-> "onBar", ok |-> TRUE, arg |-> energy, draw |-> NoDraw]
       ELSE checkTransitionTrigger(barNumber, energy)
    /\ UNCHANGED <<clockVars, lastFrame, energyRef, inputVars, playVars,
                   currentEnergy, interp, voices, call, rhythm>>

\* startTransition(targetStyleId) called from outside the director
StartTransition(targetStyleId, r) ==
    /\ transitionState' = NewTransition(totalBars, targetStyleId, r)
    /\ events' = << "transitionStart", "energyDrop" >>
    /\ eventArgs' = StartArgs(transitionState')
    /\ StartCallbacks
    /\ lastOp' = [op |-> "startTransition",
                  ok |-> targetStyleId = "" \/ FindStyle(targetStyleId) # 0,
                  arg |-> FindStyle(targetStyleId), draw |-> NoDraw]
    /\ UNCHANGED <<clockVars, lastFrame, energyRef, inputVars, playVars,
                   currentEnergy, currentStyle, barsInCurrentStyle, totalBars,
                   interp, voices, call, rhythm>>

\* forceStyle(styleId)
ForceStyle(styleId) ==
    /\ IF FindStyle(styleId) # 0
       THEN /\ currentStyle' = styleId
            /\ barsInCurrentStyle' = 0
            /\ transitionState' = NoTransition
            /\ events' = << "styleChange" >>
            /\ eventArgs' = << <<styleId, currentStyle>> >>
       ELSE /\ events' = << >>
            /\ eventArgs' = << >>
            /\ UNCHANGED <<currentStyle, barsInCurrentStyle, transitionState>>
    /\ lastOp' = [op |-> "forceStyle", ok |-> FindStyle(styleId) # 0, arg |-> 0, draw |-> NoDraw]
    /\ UNCHANGED <<clockVars, lastFrame, energyRef, inputVars, playVars,
                   currentEnergy, energyDropInterval, totalBars,
                   interp, voices, call, rhythm, riser>>

\* the body of getInterpolatedValue while a transition is in flight
TransitionValue(fromVal, toVal, progress, isNumber) ==
    IF isNumber
    THEN Lerp(fromVal, toVal, progress)
    ELSE SwitchAtHalf(fromVal, toVal, progress)

\* StyleDirector.getInterpolatedValue(key); progress is a multiple of
\* 1 / transitionDurationBars, which thousandths hold exactly
getInterpolatedValue(key) ==
    IF ~transitionState.isTransitioning
    THEN StyleOf(currentStyle)[key]
    ELSE TransitionValue(StyleOf(transitionState.fromStyle)[key],
                         StyleOf(transitionState.toStyle)[key],
                         Decimal(transitionState.progress, 3),
                         key \in NumberKeys)

\* a caller evaluates interpolateStyleValue on the arguments held in interp
Interpolate ==
    /\ interp.kind = "call" /\ ~interp.done
    /\ interp' = [interp EXCEPT
                    !.done = TRUE,
                    !.value = interpolateStyleValue(StyleOf(interp.fromStyle),
                                                    StyleOf(interp.toStyle),
                                                    Decimal(interp.progress, 3),
                                                    interp.key)]
    /\ lastOp' = [op |-> "interpolate", ok |-> TRUE, arg |-> 0, draw |-> NoDraw]
    /\ UNCHANGED <<clockVars, lastFrame, energyRef, inputVars, playVars,
                   currentEnergy, energyDropInterval, directorVars, events,
                   eventArgs, voices, call, rhythm, riser>>

\* a caller asks the director for the field held in interp
GetInterpolatedValue ==
    /\ interp.kind = "director" /\ ~interp.done
    /\ interp' = [interp EXCEPT
                    !.done = TRUE,
                    !.fromStyle = transitionState.fromStyle,
                    !.toStyle = transitionState.toStyle,
                    !.progress = transitionState.progress,
                    !.value = getInterpolatedValue(interp.key)]
    /\ lastOp' = [op |-> "getInterpolatedValue", ok |-> TRUE, arg |-> 0, draw |-> NoDraw]
    /\ UNCHANGED <<clockVars, lastFrame, energyRef, inputVars, playVars,
                   currentEnergy, energyDropInterval, directorVars, events,
                   eventArgs, voices, call, rhythm, riser>>

----------------------------------------------------------------------------
(* AudioEngine (services/audioEngine) and App.tsx handlers *)

\* CHORD_SCALES of melody.ts
CHORD_SCALES == << {"A", "C", "E"}, {"F", "A", "C"}, {"C", "E", "G"},
                  {"G", "B", "D"} >>

\* getCurrentChordIndex() of melody.ts with the transport at the position
\* given, in units of 1/16 ms: a bar is sixteen sixteenth notes
getCurrentChordIndex(position) ==
    IF transportState # "started" THEN 0
    ELSE ((position \div (16 * SixteenthUnits)) \div 4) % Len(CHORD_SCALES)

\* KEYBOARD_MAP of melody.ts, for the keys of the model
KEYBOARD_MAP == [a |-> [name |-> "A", octave |-> 2],
                 z |-> [name |-> "A", octave |-> 1]]

\* variant of nextSubdivision that gives the grid point at or before the
\* transport position
currentSubdivision == ((now - transportStart) * BPM) \div 15000

\* Tone.Transport.nextSubdivision('16n') as the number of the grid point: the
\* first sixteenth after the transport position; a position on a grid point
\* yields the following one.  Grid point k lies k * 15000 / BPM ms after the
\* start of the transport.
nextSubdivision == (((now - transportStart) * BPM) \div 15000) + 1

\* variant of MelodyVoices with the FM voice at the whole euphoria stage
MelodyVoicesFmAtEuphoria(energy, key, triggerTime) ==
    LET stage == getEnergyStage(energy)
        note == KEYBOARD_MAP[key]
        dur == IF stage = "idle" THEN "4n"
               ELSE IF stage = "awakening" THEN "8n" ELSE "16n"
        Voice(layer, octave, transpose, d) ==
            [layer |-> layer, name |-> note.name, octave |-> octave,
             transpose |-> transpose, dur |-> d, time |-> triggerTime]
    IN {Voice("lead", note.octave, 0, dur)}
       \cup (IF stage # "idle"
             THEN {Voice("subLayer", Max(1, note.octave - 1), 0, dur)} ELSE {})
       \cup (IF stage \in {"flow", "euphoria"}
             THEN {Voice("lead", note.octave, 7, dur)} ELSE {})
       \cup (IF stage = "euphoria"
             THEN {Voice("fmLayer", note.octave + 1, 0, "32n")} ELSE {})

\* the triggerAttackRelease calls of triggerQuantizedNote(instruments, energy,
\* key): one record per sounding note, all at triggerTime
MelodyVoices(energy, key, triggerTime) ==
    LET stage == getEnergyStage(energy)
        note == KEYBOARD_MAP[key]
        dur == IF stage = "idle" THEN "4n"
               ELSE IF stage = "awakening" THEN "8n" ELSE "16n"
        Voice(layer, octave, transpose, d) ==
            [layer |-> layer, name |-> note.name, octave |-> octave,
             transpose |-> transpose, dur |-> d, time |-> triggerTime]
    IN {Voice("lead", note.octave, 0, dur)}
       \cup (IF stage # "idle"
             THEN {Voice("subLayer", Max(1, note.octave - 1), 0, dur)} ELSE {})
       \cup (IF stage \in {"flow", "euphoria"}
             THEN {Voice("lead", note.octave, 7, dur)} ELSE {})
       \cup (IF stage = "euphoria" /\ energy > ENERGY_VERY_HIGH
             THEN {Voice("fmLayer", note.octave + 1, 0, "32n")} ELSE {})

\* variant of triggerQuantizedNote that stamps lastMelodyTime before the
\* throttle
triggerQuantizedNoteStampFirst(key) ==
    IF /\ isInitialized
       /\ transportState = "started"
       /\ ~(now - lastMelodyTime < MIN_MELODY_INTERVAL)
    THEN /\ lastMelodyTime' = now
         /\ voices' = MelodyVoices(currentEnergy, key, nextSubdivision)
    ELSE /\ voices' = {}
         /\ lastMelodyTime' = now

\* melody.ts triggerQuantizedNote behind AudioEngine.triggerQuantizedNote:
\* nothing unless initialised and the transport runs; then the 60 ms throttle
triggerQuantizedNote(key) ==
    IF /\ isInitialized
       /\ transportState = "started"
       /\ ~(now - lastMelodyTime < MIN_MELODY_INTERVAL)
    THEN /\ lastMelodyTime' = now
         /\ voices' = MelodyVoices(currentEnergy, key, nextSubdivision)
    ELSE /\ voices' = {}
         /\ UNCHANGED lastMelodyTime

\* handleKeyDown(e) with e.key = key and Math.random() = r / 1000
HandleKeyDown(key, r) ==
    IF \/ ~isPlaying
       \/ now - keyTimestamps[key] < MIN_KEY_INTERVAL
    THEN /\ lastOp' = [op |-> "keyDown", ok |-> FALSE, arg |-> 0, draw |-> NoDraw]
         /\ voices' = {}
         /\ UNCHANGED <<clockVars, lastFrame, energyRef, inputVars, playVars,
                        currentEnergy, energyDropInterval, directorVars,
                        events, eventArgs,
                   interp, call, rhythm, riser>>
    ELSE LET isSparkle == r < getSparkleChance(energyRef)
         IN /\ keyTimestamps' = [keyTimestamps EXCEPT ![key] = now]
            /\ sparkleSignal' = IF isSparkle THEN sparkleSignal + 1 ELSE sparkleSignal
            /\ energyRef' = Min(EnergyScale, energyRef + KeyBoost(energyRef, isSparkle))
            /\ triggerQuantizedNote(key)
            /\ triggerCount' = triggerCount + 1
            /\ lastOp' = [op |-> "keyDown", ok |-> TRUE, arg |-> 0, draw |-> NoDraw]
            /\ UNCHANGED <<clockVars, lastFrame, playVars, currentEnergy,
                           energyDropInterval, directorVars, events,
                           eventArgs, interp, call, rhythm, riser>>

\* one animation frame: animate()
Animate ==
    /\ lastFrame < now
    /\ lastFrame' = now
    /\ IF energyRef > 0
       THEN /\ energyRef' = DecayStep(energyRef)
            /\ updateEnergy(DecayStep(energyRef))
       ELSE UNCHANGED <<energyRef, currentEnergy>>
    /\ lastOp' = [op |-> "animate", ok |-> energyRef > 0, arg |-> 0, draw |-> NoDraw]
    /\ UNCHANGED <<clockVars, inputVars, playVars, energyDropInterval,
                   directorVars, events, eventArgs, interp, voices, call,
                   rhythm, riser>>

\* handleTogglePlay while the rendered isPlaying is false: calls init(), which
\* returns at once when initialised and otherwise suspends at its await
TogglePlayOn ==
    /\ ~isPlaying
    /\ Len(pendingInits) < MaxPendingInits
    /\ pendingInits' = Append(pendingInits, ~isInitialized)
    /\ lastOp' = [op |-> "togglePlayOn", ok |-> TRUE, arg |-> 0, draw |-> NoDraw]
    /\ UNCHANGED <<clockVars, lastFrame, energyRef, inputVars, isPlaying,
                   isInitialized, transportState, transportStart, rhythmLoops,
                   currentEnergy,
                   energyDropInterval, directorVars, events, eventArgs,
                   interp, voices, call, rhythm, riser>>

\* the oldest suspended init() resumes and handleTogglePlay runs to its end:
\* a new director, the rhythm loop, then start() and isPlayingRef = true
InitResume ==
    /\ pendingInits # << >>
    /\ pendingInits' = Tail(pendingInits)
    /\ IF Head(pendingInits)
       THEN /\ currentStyle' = InitialStyle("")
            /\ barsInCurrentStyle' = 0
            /\ totalBars' = 0
            /\ transitionState' = NoTransition
            /\ rhythmLoops' = rhythmLoops + 1
            /\ isInitialized' = TRUE
       ELSE UNCHANGED <<directorVars, rhythmLoops, isInitialized>>
    /\ transportState' = "started"
    /\ transportStart' = IF transportState # "started" THEN now ELSE transportStart
    /\ isPlaying' = TRUE
    /\ rhythm' = IF transportState # "started"
                 THEN [rhythm EXCEPT !.ticks = 0] ELSE rhythm
    /\ lastOp' = [op |-> "initResume", ok |-> Head(pendingInits), arg |-> 0,
                  draw |-> NoDraw]
    /\ UNCHANGED <<clockVars, lastFrame, energyRef, inputVars, currentEnergy,
                   energyDropInterval, events, eventArgs, interp, voices,
                   call, riser>>

\* handleTogglePlay while the rendered isPlaying is true: AudioEngine.stop()
TogglePlayOff ==
    /\ isPlaying
    /\ energyDropInterval' = NoInterval
    /\ transportState' = "stopped"
    /\ isPlaying' = FALSE
    /\ lastOp' = [op |-> "togglePlayOff", ok |-> TRUE, arg |-> 0, draw |-> NoDraw]
    /\ UNCHANGED <<clockVars, lastFrame, energyRef, inputVars, isInitialized,
                   transportStart, pendingInits, rhythmLoops, currentEnergy,
                   directorVars,
                   events, eventArgs, interp, voices, call, rhythm, riser>>

\* AudioEngine.triggerSparkle(): the intensity follows the energy; the call is
\* dropped while the transport is not started and inside the throttle
TriggerSparkle(r1, r2) ==
    /\ IF /\ isInitialized
          /\ transportState = "started"
          /\ ~SparkleThrottled(now * 16)
       THEN /\ rhythm' = [rhythm EXCEPT
                            !.lastSparkleTime = now * 16,
                            !.hits = SparkleHits(
                                IF currentEnergy > 60000 THEN "high"
                                ELSE IF currentEnergy > 30000 THEN "medium"
                                ELSE "low", now * 16, r1, r2)]
            /\ lastOp' = [op |-> "triggerSparkle", ok |-> TRUE, arg |-> 0,
                          draw |-> NoDraw]
       ELSE /\ rhythm' = [rhythm EXCEPT !.hits = {}]
            /\ lastOp' = [op |-> "triggerSparkle", ok |-> FALSE, arg |-> 0,
                          draw |-> NoDraw]
    /\ UNCHANGED <<clockVars, lastFrame, energyRef, inputVars, playVars,
                   currentEnergy, energyDropInterval, directorVars, events,
                   eventArgs, interp, voices, call, riser>>

\* the callback of the setTimeout armed by triggerRiser
RiserReset ==
    /\ riser.isPlaying
    /\ now >= riser.resetAt
    /\ riser' = [riser EXCEPT !.isPlaying = FALSE, !.resetAt = 0]
    /\ lastOp' = [op |-> "riserReset", ok |-> TRUE, arg |-> 0, draw |-> NoDraw]
    /\ UNCHANGED <<clockVars, lastFrame, energyRef, inputVars, playVars,
                   currentEnergy, energyDropInterval, directorVars, events,
                   eventArgs, interp, voices, call, rhythm>>

\* AudioEngine.forceStyleTransition(targetStyleId)
ForceStyleTransition(targetStyleId, r) ==
    /\ isInitialized
    /\ StartTransition(targetStyleId, r)

\* the browser waits one frame period after a frame before it calls animate
\* again
FrameClock ==
    /\ lastFrame = now
    /\ now + FramePeriod <= StartTime + MaxFrames * FramePeriod
    /\ now' = now + FramePeriod
    /\ lastOp' = [op |-> "frameClock", ok |-> TRUE, arg |-> 0, draw |-> NoDraw]
    /\ UNCHANGED <<shortSteps, lastFrame, energyRef, inputVars, playVars,
                   currentEnergy, energyDropInterval, directorVars, events,
                   eventArgs, interp, voices, call, rhythm, riser>>

\* the clock advances
Advance(d) ==
    /\ now + d <= StartTime + MaxTime
    /\ d = ShortStep => shortSteps < MaxShortSteps
    /\ now' = now + d
    /\ shortSteps' = IF d = ShortStep THEN shortSteps + 1 ELSE shortSteps
    /\ lastOp' = [op |-> "advance", ok |-> TRUE, arg |-> 0, draw |-> NoDraw]
    /\ UNCHANGED <<lastFrame, energyRef, inputVars, playVars, currentEnergy,
                   energyDropInterval, directorVars, events, eventArgs,
                   interp, voices, call, rhythm, riser>>

----------------------------------------------------------------------------
(* Specifications *)

\* no interpolation call was made
NoInterp == [kind |-> "none", key |-> "", fromStyle |-> "", toStyle |-> "",
             progress |-> 0, done |-> FALSE, value |-> Zero]

Init ==
    /\ now = StartTime
    /\ shortSteps = 0
    /\ lastFrame = 0
    /\ isPlaying = FALSE
    /\ energyRef = 0
    /\ keyTimestamps = [k \in Keys |-> 0]
    /\ triggerCount = 0
    /\ sparkleSignal = 0
    /\ isInitialized = FALSE
    /\ transportState = "stopped"
    /\ transportStart = 0
    /\ currentEnergy = 0
    /\ energyDropInterval = NoInterval
    /\ lastMelodyTime = 0
    /\ pendingInits = << >>
    /\ rhythmLoops = 0
    /\ currentStyle = InitialStyle("")
    /\ barsInCurrentStyle = 0
    /\ totalBars = 0
    /\ transitionState = NoTransition
    /\ events = << >>
    /\ eventArgs = << >>
    /\ lastOp = [op |-> "init", ok |-> TRUE, arg |-> 0, draw |-> NoDraw]
    /\ interp = NoInterp
    /\ voices = {}
    /\ call = NoCall
    /\ rhythm = NewRhythmLoop
    /\ riser = NoRiser

\* the application: frames, keys, play/stop, the engine's transition request
NextApp ==
    \/ Animate
    \/ \E key \in Keys, r \in RandomDraws : HandleKeyDown(key, r)
    \/ TogglePlayOn
    \/ InitResume
    \/ TogglePlayOff
    \/ EnergyDropTick
    \/ \E t \in StyleArgs, r \in RandomDraws : ForceStyleTransition(t, r)
    \/ \E d \in {ShortStep, LongStep} : Advance(d)

SpecApp == Init /\ [][NextApp]_vars

\* Energies the sampled states of SpecEnergy start from.  Every multiple of 5
\* units is an energy the application reaches from 0 by boosts and decay
\* frames; the samples lie around the stage thresholds, the resistance zones
\* and the two clamps.
InitEnergies == {0, 300, 17995, 19700, 25000, 39900, 55000, 80000, 85005, 98000}

\* the application while it plays, at a sampled energy just committed by a frame
InitEnergy ==
    /\ now = StartTime
    /\ shortSteps = 0
    /\ lastFrame = StartTime
    /\ isPlaying = TRUE
    /\ energyRef \in InitEnergies
    /\ keyTimestamps = [k \in Keys |-> 0]
    /\ triggerCount = 0
    /\ sparkleSignal = 0
    /\ isInitialized = TRUE
    /\ transportState = "started"
    /\ transportStart = 0
    /\ currentEnergy = energyRef
    /\ energyDropInterval = NoInterval
    /\ lastMelodyTime = 0
    /\ pendingInits = << >>
    /\ rhythmLoops = 1
    /\ currentStyle = InitialStyle("")
    /\ barsInCurrentStyle = 0
    /\ totalBars = 0
    /\ transitionState = NoTransition
    /\ events = << >>
    /\ eventArgs = << >>
    /\ lastOp = [op |-> "init", ok |-> TRUE, arg |-> 0, draw |-> NoDraw]
    /\ interp = NoInterp
    /\ voices = {}
    /\ call = NoCall
    /\ rhythm = NewRhythmLoop
    /\ riser = NoRiser

\* the energy controller: frames, keys, the ramp and the request that starts
\* it; the clock moves in long steps
NextEnergy ==
    \/ Animate
    \/ \E key \in Keys, r \in RandomDraws : HandleKeyDown(key, r)
    \/ EnergyDropTick
    \/ \E t \in {""}, r \in {0} : ForceStyleTransition(t, r)
    \/ \E d \in {LongStep} : Advance(d)

SpecEnergy == InitEnergy /\ [][NextEnergy]_vars

\* animation frames alone, one per frame period, with no key event: the
\* browser keeps calling animate as long as frames are due
NextDecay ==
    \/ Animate
    \/ FrameClock

SpecDecay ==
    InitEnergy /\ [][NextDecay]_vars /\ WF_vars(Animate) /\ WF_vars(FrameClock)

\* Energies the sampled states of SpecKeys start from: 0 and the energies
\* around the stage thresholds and the very-high threshold of the melody.
KeyEnergies == {0, 19995, 20000, 39995, 40000, 59995, 60000, 79995, 80000,
                90000, 90005}

\* the application while it plays, right after a frame committed a sampled
\* energy; the transport was started sixteen sixteenth notes ago, so that the
\* first key event falls on a grid point
InitKeys ==
    /\ now = StartTime
    /\ shortSteps = 0
    /\ lastFrame = StartTime
    /\ isPlaying = TRUE
    /\ energyRef \in KeyEnergies
    /\ keyTimestamps = [k \in Keys |-> 0]
    /\ triggerCount = 0
    /\ sparkleSignal = 0
    /\ isInitialized = TRUE
    /\ transportState = "started"
    /\ transportStart = StartTime - (16 * 15000) \div BPM
    /\ currentEnergy = energyRef
    /\ energyDropInterval = NoInterval
    /\ lastMelodyTime = 0
    /\ pendingInits = << >>
    /\ rhythmLoops = 1
    /\ currentStyle = InitialStyle("")
    /\ barsInCurrentStyle = 0
    /\ totalBars = 0
    /\ transitionState = NoTransition
    /\ events = << >>
    /\ eventArgs = << >>
    /\ lastOp = [op |-> "init", ok |-> TRUE, arg |-> 0, draw |-> NoDraw]
    /\ interp = NoInterp
    /\ voices = {}
    /\ call = NoCall
    /\ rhythm = NewRhythmLoop
    /\ riser = NoRiser

\* key events between two animation frames, with play and stop
NextKeys ==
    \/ \E key \in {"a"}, r \in {75, 900} : HandleKeyDown(key, r)
    \/ TogglePlayOn
    \/ InitResume
    \/ TogglePlayOff
    \/ \E d \in {ShortStep, LongStep} : Advance(d)

SpecKeys == InitKeys /\ [][NextKeys]_vars

\* the application while it plays at energy 0
InitBoost == InitKeys /\ energyRef = 0

\* a run of key events of one key with no frame in between; the clock moves
\* by the two minimum intervals together, so that every event is accepted
NextBoost ==
    \/ \E key \in {"a"}, r \in {75, 900} : HandleKeyDown(key, r)
    \/ \E d \in {MIN_KEY_INTERVAL + MIN_MELODY_INTERVAL} : Advance(d)

SpecBoost == InitBoost /\ [][NextBoost]_vars

\* bar numbers the caller of onBar passes: bars are notified in order
BarInputs == {totalBars + 1} \cap (0..MaxBar)

\* the director driven by its caller
NextDirector ==
    \/ \E b \in BarInputs, e \in BarEnergies : OnBar(b, e)
    \/ \E t \in StyleArgs, r \in RandomDraws : StartTransition(t, r)
    \/ \E id \in StyleArgs : ForceStyle(id)

SpecDirector == Init /\ [][NextDirector]_vars

\* bar numbers of a caller that notifies bars in any order, as after a restart
\* of the beat counter
AnyBars == 0..MaxAnyBar

\* the director driven by a caller whose bar numbers are arbitrary
NextBars ==
    \/ \E b \in AnyBars, e \in {0, 80000} :
         /\ barsInCurrentStyle < MaxBarsInStyle
         /\ OnBar(b, e)
    \/ \E r \in {0, 900} : StartTransition("", r)
    \/ \E id \in {"trance"} : ForceStyle(id)

SpecBars == Init /\ [][NextBars]_vars

\* progress values a caller passes, in thousandths
ProgressSamples == {0, 1, 250, 333, 499, 500, 501, 750, 999, 1000}

\* calls about to be made: interpolateStyleValue on a pair of styles, a
\* progress and a field, or getInterpolatedValue on a field
InterpCalls ==
    { [kind |-> "call", key |-> k, fromStyle |-> f, toStyle |-> t,
       progress |-> p, done |-> FALSE, value |-> Zero] :
        f \in StyleIds, t \in StyleIds, p \in ProgressSamples, k \in StyleKeys }
    \cup
    { [kind |-> "director", key |-> k, fromStyle |-> "", toStyle |-> "",
       progress |-> 0, done |-> FALSE, value |-> Zero] : k \in StyleKeys }

\* the arguments of one interpolateStyleValue call, or the field of one
\* getInterpolatedValue call on the director after construction
InitInterp ==
    /\ now = StartTime
    /\ shortSteps = 0
    /\ lastFrame = 0
    /\ isPlaying = FALSE
    /\ energyRef = 0
    /\ keyTimestamps = [k \in Keys |-> 0]
    /\ triggerCount = 0
    /\ sparkleSignal = 0
    /\ isInitialized = FALSE
    /\ transportState = "stopped"
    /\ transportStart = 0
    /\ currentEnergy = 0
    /\ energyDropInterval = NoInterval
    /\ lastMelodyTime = 0
    /\ pendingInits = << >>
    /\ rhythmLoops = 0
    /\ currentStyle = InitialStyle("")
    /\ barsInCurrentStyle = 0
    /\ totalBars = 0
    /\ transitionState = NoTransition
    /\ events = << >>
    /\ eventArgs = << >>
    /\ lastOp = [op |-> "init", ok |-> TRUE, arg |-> 0, draw |-> NoDraw]
    /\ interp \in InterpCalls
    /\ voices = {}
    /\ call = NoCall
    /\ rhythm = NewRhythmLoop
    /\ riser = NoRiser

\* interpolation: the function on its own, and the director's getter after a
\* few bars and transition requests
NextInterp ==
    \/ Interpolate
    \/ GetInterpolatedValue
    \/ /\ interp.kind = "director" /\ ~interp.done
       /\ \E b \in BarInputs \cap (0..MaxInterpBar) : OnBar(b, 0)
    \/ /\ interp.kind = "director" /\ ~interp.done
       /\ \E t \in StyleIds, r \in {0} : StartTransition(t, r)

SpecInterp == InitInterp /\ [][NextInterp]_vars

\* the arguments of the calls of the catalog functions and of the trigger
\* functions: every style, bar numbers up to MaxChordBar, octave ranges up to
\* MaxOctave, every step and stage, the two ends of the energy range, and the
\* values a read of a 16-slot pattern gives at the indices -1..16, with a
\* negative value
CallInputs ==
    { [NoCall EXCEPT !.fn = "BeatCounter", !.a = n] : n \in 0..MaxSixteenthCount }
    \cup
    { [NoCall EXCEPT !.fn = "getCurrentChord", !.style = id, !.a = barNumber] :
        id \in StyleIds, barNumber \in 0..MaxChordBar }
    \cup
    { [NoCall EXCEPT !.fn = "generateScaleWithOctaves", !.style = id,
                     !.a = minOctave, !.b = maxOctave] :
        id \in StyleIds, minOctave \in 1..MaxOctave, maxOctave \in 0..MaxOctave }
    \cup
    { [NoCall EXCEPT !.fn = t[1], !.style = t[2], !.a = t[3], !.b = t[3] \div 4,
                     !.stage = t[4], !.energy = t[5], !.pattern = t[6]] :
        t \in {"processKickTrigger", "processBassTrigger",
               "processHihatTrigger", "processSnareTrigger"}
              \X StyleIds \X (0..15) \X Stages \X {0, EnergyScale}
              \X ({ PatternValueAt(DISCO_HOUSE.patterns.kick, i) : i \in -1..16 }
                  \cup {Num(-1)}) }

\* the application while it plays, with one call about to be made
InitCalls ==
    /\ now = StartTime
    /\ shortSteps = 0
    /\ lastFrame = StartTime
    /\ isPlaying = TRUE
    /\ energyRef = 0
    /\ keyTimestamps = [k \in Keys |-> 0]
    /\ triggerCount = 0
    /\ sparkleSignal = 0
    /\ isInitialized = TRUE
    /\ transportState = "started"
    /\ transportStart = StartTime
    /\ currentEnergy = 0
    /\ energyDropInterval = NoInterval
    /\ lastMelodyTime = 0
    /\ pendingInits = << >>
    /\ rhythmLoops = 1
    /\ currentStyle = InitialStyle("")
    /\ barsInCurrentStyle = 0
    /\ totalBars = 0
    /\ transitionState = NoTransition
    /\ events = << >>
    /\ eventArgs = << >>
    /\ lastOp = [op |-> "init", ok |-> TRUE, arg |-> 0, draw |-> NoDraw]
    /\ interp = NoInterp
    /\ voices = {}
    /\ call \in CallInputs
    /\ rhythm = NewRhythmLoop
    /\ riser = NoRiser

NextCalls ==
    \/ Call("BeatCounter")
    \/ Call("getCurrentChord")
    \/ Call("generateScaleWithOctaves")
    \/ Call("processKickTrigger")
    \/ Call("processBassTrigger")
    \/ Call("processHihatTrigger")
    \/ Call("processSnareTrigger")

SpecCalls == InitCalls /\ [][NextCalls]_vars

\* the energies at which the rhythm loop is started
RhythmEnergies == {0, 20000, 39995, 40010, 60000, 80000}

\* the application while it plays, the transport just started, with a call of
\* processSnareTrigger about to be made
InitRhythm ==
    /\ now = StartTime
    /\ shortSteps = 0
    /\ lastFrame = StartTime
    /\ isPlaying = TRUE
    /\ energyRef \in RhythmEnergies
    /\ keyTimestamps = [k \in Keys |-> 0]
    /\ triggerCount = 0
    /\ sparkleSignal = 0
    /\ isInitialized = TRUE
    /\ transportState = "started"
    /\ transportStart = StartTime
    /\ currentEnergy = energyRef
    /\ energyDropInterval = NoInterval
    /\ lastMelodyTime = 0
    /\ pendingInits = << >>
    /\ rhythmLoops = 1
    /\ currentStyle = InitialStyle("")
    /\ barsInCurrentStyle = 0
    /\ totalBars = 0
    /\ transitionState = NoTransition
    /\ events = << >>
    /\ eventArgs = << >>
    /\ lastOp = [op |-> "init", ok |-> TRUE, arg |-> 0, draw |-> NoDraw]
    /\ interp = NoInterp
    /\ voices = {}
    /\ call \in { c \in CallInputs : /\ c.fn = "processSnareTrigger"
                                    /\ c.style = "disco" /\ c.a \in {0, 4}
                                    /\ c.energy = 0
                                    /\ c.pattern \in {Num(1), Undefined} }
    /\ rhythm = NewRhythmLoop
    /\ riser = NoRiser

\* the callbacks of the transport and the decay frames while the clock runs
NextRhythm ==
    \/ \E r1 \in {0, 900}, r2 \in {0, 900}, noteDraw \in {0, 900} :
          RhythmTick(r1, r2, noteDraw)
    \/ DropKick
    \/ Animate
    \/ Call("processSnareTrigger")
    \/ \E d \in {LongStep} : Advance(d)

SpecRhythm == InitRhythm /\ [][NextRhythm]_vars

\* the application while it plays at the idle, groove or flow stage
InitThrottle == InitKeys /\ energyRef \in {0, 40000, 60000}

\* the throttled event sources: key events of two keys, sparkle requests; the
\* clock stands still, moves by less than the melody floor, or by more than
\* every floor
NextThrottle ==
    \/ \E key \in Keys, r \in {900} : HandleKeyDown(key, r)
    \/ \E r1 \in {0, 900}, r2 \in {500} : TriggerSparkle(r1, r2)
    \/ \E d \in {ShortStep, LongStep} : Advance(d)

SpecThrottle == InitThrottle /\ [][NextThrottle]_vars

\* age in ms of the transition that is in flight when playback is observed
TransitionAge == 1000

\* the application while it plays at the euphoria stage, the transport just
\* started, TransitionAge ms after forceStyleTransition() started a
\* transition: the riser plays and the energy-drop ramp runs
InitPlay ==
    /\ now = StartTime
    /\ shortSteps = 0
    /\ lastFrame = StartTime
    /\ isPlaying = TRUE
    /\ energyRef = ENERGY_VERY_HIGH
    /\ keyTimestamps = [k \in Keys |-> 0]
    /\ triggerCount = 0
    /\ sparkleSignal = 0
    /\ isInitialized = TRUE
    /\ transportState = "started"
    /\ transportStart = StartTime
    /\ currentEnergy = energyRef
    /\ energyDropInterval = [active |-> TRUE, startEnergy |-> currentEnergy,
                             startTime |-> StartTime - TransitionAge,
                             lastFire |-> StartTime]
    /\ lastMelodyTime = 0
    /\ pendingInits = << >>
    /\ rhythmLoops = 1
    /\ currentStyle = InitialStyle("")
    /\ barsInCurrentStyle = 0
    /\ totalBars = 0
    /\ transitionState = [NoTransition EXCEPT !.isTransitioning = TRUE,
                                              !.fromStyle = currentStyle,
                                              !.toStyle = "trance"]
    /\ events = << >>
    /\ eventArgs = << >>
    /\ lastOp = [op |-> "init", ok |-> TRUE, arg |-> 0, draw |-> NoDraw]
    /\ interp = NoInterp
    /\ voices = {}
    /\ call = NoCall
    /\ rhythm = NewRhythmLoop
    /\ riser = [NoRiser EXCEPT
                  !.isPlaying = TRUE,
                  !.resetAt = StartTime - TransitionAge + RiserDuration + 500]

\* playback with its delayed callbacks and stop and start: the rhythm loop,
\* the delayed kick of the drop effect, the energy-drop ramp, the riser's reset
NextStop ==
    \/ \E r1 \in {0, 900}, r2 \in {900}, noteDraw \in {0} :
          RhythmTick(r1, r2, noteDraw)
    \/ DropKick
    \/ EnergyDropTick
    \/ RiserReset
    \/ TogglePlayOff
    \/ TogglePlayOn
    \/ InitResume
    \/ \E d \in {LongStep} : Advance(d)

SpecStop == InitPlay /\ [][NextStop]_vars

\* playback without stop: the rhythm loop, the decay frames, the energy-drop
\* ramp and a forced transition that starts it again
NextPlay ==
    \/ \E r1 \in {0, 900}, r2 \in {900}, noteDraw \in {0} :
          RhythmTick(r1, r2, noteDraw)
    \/ DropKick
    \/ Animate
    \/ EnergyDropTick
    \/ \E t \in {""}, r \in {0} : ForceStyleTransition(t, r)
    \/ \E d \in {LongStep} : Advance(d)

SpecPlay == InitPlay /\ [][NextPlay]_vars

\* playback with bar notifications in order, forced transitions and the
\* riser's reset timeout
NextFrame ==
    \/ \E b \in BarInputs, e \in {0, 80000} : OnBar(b, e)
    \/ \E t \in {""}, r \in {0} : ForceStyleTransition(t, r)
    \/ RiserReset
    \/ \E d \in {LongStep} : Advance(d)

SpecFrame == InitPlay /\ [][NextFrame]_vars

\* the start button from a fresh page: clicks, the resumption of each init()
\* after its await, stop, and the rhythm loop once one is scheduled
NextInit ==
    \/ TogglePlayOn
    \/ InitResume
    \/ TogglePlayOff
    \/ \E r1 \in {900}, r2 \in {900}, noteDraw \in {0} :
          RhythmTick(r1, r2, noteDraw)
    \/ \E d \in {LongStep} : Advance(d)

SpecInit == Init /\ [][NextInit]_vars

----------------------------------------------------------------------------
(* Properties of the throttles, under SpecThrottle *)

\* C21: two accepted presses of one key are at least 50 ms apart, two accepted
\* melody triggers at least 60 ms, two accepted sparkles at least 200 ms; an
\* event that arrives sooner is dropped: it triggers nothing and changes no
\* timestamp, and new voices and bell notes only ever appear in the step of an
\* accepted event, at its time, never later.
C21_ThrottleFloors ==
    [][ /\ \A k \in Keys :
              keyTimestamps'[k] # keyTimestamps[k]
                 => keyTimestamps'[k] - keyTimestamps[k] >= MIN_KEY_INTERVAL
        /\ lastMelodyTime' # lastMelodyTime
              => lastMelodyTime' - lastMelodyTime >= MIN_MELODY_INTERVAL
        /\ rhythm'.lastSparkleTime # rhythm.lastSparkleTime
              => rhythm'.lastSparkleTime - rhythm.lastSparkleTime
                    >= MIN_SPARKLE_INTERVAL
        /\ (lastOp'.op = "keyDown" /\ ~lastOp'.ok)
              => /\ voices' = {}
                 /\ UNCHANGED <<keyTimestamps, lastMelodyTime, energyRef,
                                triggerCount>>
        /\ (lastOp'.op = "keyDown" /\ now - lastMelodyTime < MIN_MELODY_INTERVAL)
              => voices' = {} /\ UNCHANGED lastMelodyTime
        /\ (lastOp'.op = "triggerSparkle" /\ ~lastOp'.ok)
              => rhythm'.hits = {} /\ UNCHANGED rhythm.lastSparkleTime
        /\ (voices' # {} /\ voices' # voices)
              => lastOp'.op = "keyDown" /\ lastOp'.ok /\ lastMelodyTime' = now
        /\ (rhythm'.hits # {} /\ rhythm'.hits # rhythm.hits)
              => /\ lastOp'.op = "triggerSparkle" /\ lastOp'.ok
                 /\ rhythm'.lastSparkleTime = now * 16
      ]_vars

\* 50 ms after an accepted press, melody trigger and sparkle, a second press
\* of the same key was accepted, its melody trigger dropped, and the sparkle
\* request that followed was dropped
C21_Witness ==
    /\ lastOp.op = "triggerSparkle" /\ ~lastOp.ok
    /\ keyTimestamps["a"] = now
    /\ lastMelodyTime = now - ShortStep
    /\ rhythm.lastSparkleTime = (now - ShortStep) * 16
    /\ voices = {}

----------------------------------------------------------------------------
(* Properties of the rhythm loop, under SpecRhythm *)

SnareHits == { h \in rhythm.hits : h.inst = "snare" }

\* C16: the snare never triggers while the stage is idle or awakening: a call
\* of processSnareTrigger with such a stage returns shouldTrigger = false for
\* every pattern value and step, and a callback of the rhythm loop that reads
\* an energy of such a stage triggers no snare.
C16_SnareSilentBelowGroove ==
    /\ [](call.done /\ call.stage \in {"idle", "awakening"}
             => ~call.result.shouldTrigger)
    /\ [][(/\ lastOp'.op = "rhythmTick"
           /\ getEnergyStage(currentEnergy) \in {"idle", "awakening"})
             => { h \in rhythm'.hits : h.inst = "snare" } = {}]_vars

\* the callback of beat 1 ran at the awakening stage: kick and hi-hat but no
\* snare; and processSnareTrigger was called at that stage with the pattern
\* value 1
C16_Witness ==
    /\ lastOp.op = "rhythmTick" /\ rhythm.sixteenthCount = 5
    /\ getEnergyStage(currentEnergy) = "awakening"
    /\ \E h \in rhythm.hits : h.inst = "kick"
    /\ SnareHits = {}
    /\ call.done /\ call.stage = "awakening" /\ call.pattern = Num(1)
    /\ ~call.result.shouldTrigger

\* C25: every callback of the rhythm loop advances the tick counter by
\* exactly one, the callback that starts a drop effect and returns early
\* included, and no step of the run lowers the counter.
C25_CounterAdvancesByOne ==
    [][ /\ lastOp'.op = "rhythmTick"
            => rhythm'.sixteenthCount = rhythm.sixteenthCount + 1
        /\ rhythm'.sixteenthCount >= rhythm.sixteenthCount
      ]_vars

\* the callback of tick 0 started a drop effect and left the counter at 1
C25_Witness ==
    /\ lastOp.op = "rhythmTick"
    /\ rhythm.isDropActive /\ rhythm.pendingDrop.active
    /\ rhythm.hits = {}
    /\ rhythm.sixteenthCount = 1

\* C35: a callback of the rhythm loop on the first sixteenth of a bar notifies
\* the director once of that bar: the director's bar number becomes the bar of
\* the beat counter and its count of bars in the current style moves (by one,
\* or to 0 when the notification completes a transition)
C35_BarNotifiesDirector ==
    [][ ( /\ lastOp'.op = "rhythmTick"
          /\ sixteenthOf(rhythm.sixteenthCount) = 0
          /\ beatOf(rhythm.sixteenthCount) = 0 )
        => /\ totalBars' = barOf(rhythm.sixteenthCount)
           /\ barsInCurrentStyle' \in {barsInCurrentStyle + 1, 0}
           /\ barsInCurrentStyle' # barsInCurrentStyle
      ]_vars

\* C32: a bass note the rhythm loop plays in bar b has the pitch of the bass
\* root of the current style's chord of that bar,
\* chordProgression[floor(b / 4) mod 4].root
C32_BassPlaysChordRoot ==
    [][ lastOp'.op = "rhythmTick" =>
          \A h \in rhythm'.hits :
              h.inst = "bass" =>
                  h.note = getCurrentChord(StyleOf(currentStyle),
                                           barOf(rhythm.sixteenthCount)).root
      ]_vars

----------------------------------------------------------------------------
(* Properties of playback and its delayed callbacks, under SpecStop and
   SpecPlay *)

\* C22: after stop no delayed callback scheduled before it runs until playback
\* is started again: while the transport is stopped there is no callback of
\* the energy-drop ramp, of the riser's reset timeout or of the drop effect's
\* delayed kick.
C22_NoCallbackAfterStop ==
    [][ transportState = "stopped"
            => lastOp'.op \notin {"dropTick", "riserReset", "dropKick"} ]_vars

\* C33: at every callback of the rhythm loop, the chord index the melody
\* derives from the transport position of that callback equals the chord index
\* of the beat counter, which the loop uses for the bass root
C33_SharedChordIndex ==
    [][ lastOp'.op = "rhythmTick" =>
          chordIndex(rhythm.sixteenthCount)
              = getCurrentChordIndex(rhythm.ticks * SixteenthUnits) ]_vars

\* C23: every callback of the rhythm loop reads as energy the value the decay
\* loop committed last through updateEnergy, and only a decay frame changes
\* AudioEngine.currentEnergy.  Under SpecPlay there is no key event, so that
\* energyRef is the value committed last.
C23_TickReadsCommittedEnergy ==
    [][ /\ lastOp'.op = "rhythmTick" => lastOp'.arg = energyRef
        /\ currentEnergy' # currentEnergy => lastOp'.op = "animate"
      ]_vars

----------------------------------------------------------------------------
(* Properties of the catalog functions and the trigger functions, under
   SpecCalls *)

TriggerFns == {"processKickTrigger", "processBassTrigger",
               "processHihatTrigger", "processSnareTrigger"}

\* C13: for every style and every bar number b >= 0, getCurrentChord(style, b)
\* equals getCurrentChord(style, b + 16), it is the first chord of the
\* progression for the bars 0 to 3, and it differs from the chord of the bar
\* before only when b is a multiple of 4.
C13_ChordPeriod ==
    (call.done /\ call.fn = "getCurrentChord") =>
        /\ call.result = getCurrentChord(StyleOf(call.style), call.a + 16)
        /\ (call.a <= 3 => call.result = StyleOf(call.style).chordProgression[1])
        /\ (call.a > 0 /\ call.result # getCurrentChord(StyleOf(call.style), call.a - 1)
              => call.a % 4 = 0)

\* a call for bar 3 returned the first chord and a call for bar 4 another one
C13_Witness ==
    /\ call.done /\ call.fn = "getCurrentChord" /\ call.a = 4
    /\ call.result # StyleOf(call.style).chordProgression[1]
    /\ getCurrentChord(StyleOf(call.style), 3) = StyleOf(call.style).chordProgression[1]

\* C14: generateScaleWithOctaves(style, minOct, maxOct) with minOct <= maxOct
\* returns |scale| * (maxOct - minOct + 1) notes, octave by octave and in scale
\* order within an octave: element i (from 0) is the note i mod |scale| of the
\* scale in the octave minOct + i div |scale|.
C14_ScaleWithOctaves ==
    (call.done /\ call.fn = "generateScaleWithOctaves" /\ call.a <= call.b) =>
        /\ Len(call.result) = Len(StyleOf(call.style).scale) * (call.b - call.a + 1)
        /\ \A i \in 0..(Len(call.result) - 1) :
              call.result[i + 1] =
                  [note |-> StyleOf(call.style).scale[(i % Len(StyleOf(call.style).scale)) + 1],
                   octave |-> call.a + i \div Len(StyleOf(call.style).scale)]

\* the call for the octaves 1..2 of a 7-note scale returned 14 notes
C14_Witness ==
    /\ call.done /\ call.fn = "generateScaleWithOctaves"
    /\ call.a = 1 /\ call.b = 2
    /\ Len(StyleOf(call.style).scale) = 7
    /\ Len(call.result) = 14

\* C15: each of the four trigger functions returns shouldTrigger = false for
\* a pattern value <= 0, whatever the stage, the energy, the step and the style.
C15_NoTriggerAtZero ==
    (call.done /\ call.fn \in TriggerFns /\ LeqZero(call.pattern)) =>
        ~call.result.shouldTrigger

\* the kick and the snare were asked at the euphoria stage with the pattern
\* value 0 and did not trigger
C15_Witness ==
    /\ call.done /\ call.fn \in {"processKickTrigger", "processSnareTrigger"}
    /\ call.stage = "euphoria" /\ call.pattern = Num(0)
    /\ ~call.result.shouldTrigger

\* C24: for every tick count n >= 0 the getters of the beat counter give
\* bar = n div 16, beat = (n mod 16) div 4 in 0..3 and sixteenth = n mod 4 in
\* 0..3; the step index 4 * beat + sixteenth is n mod 16, and
\* n = 16 * bar + 4 * beat + sixteenth.
C24_BeatCounterFields ==
    (call.done /\ call.fn = "BeatCounter") =>
        /\ call.result.bar = call.a \div 16
        /\ call.result.beat = (call.a % 16) \div 4
        /\ call.result.beat \in 0..3
        /\ call.result.sixteenth = call.a % 4
        /\ call.result.sixteenth \in 0..3
        /\ 4 * call.result.beat + call.result.sixteenth = call.a % 16
        /\ call.a = 16 * call.result.bar + 4 * call.result.beat
                    + call.result.sixteenth

\* the getters were read at tick 39: bar 2, beat 1, sixteenth 3
C24_Witness ==
    /\ call.done /\ call.fn = "BeatCounter" /\ call.a = 39
    /\ call.result.bar = 2 /\ call.result.beat = 1 /\ call.result.sixteenth = 3

\* C18: a trigger function that receives the value read from a pattern index
\* outside 0..15 (undefined) never returns shouldTrigger = true.
C18_NoTriggerOnUndefined ==
    (call.done /\ call.fn \in TriggerFns /\ call.pattern.undef) =>
        ~call.result.shouldTrigger

\* the position of a stage in the order idle < awakening < groove < flow <
\* euphoria
StageRank(stage) ==
    CHOOSE i \in 1..5 :
        << "idle", "awakening", "groove", "flow", "euphoria" >>[i] = stage

\* the steps the claim lets an instrument trigger on at a stage
MaskedSteps(fn, stage) ==
    IF stage \in {"groove", "flow", "euphoria"} THEN 0..15
    ELSE IF fn = "processKickTrigger"
    THEN (IF stage = "idle" THEN {0, 8} ELSE {0, 4, 8, 12})
    ELSE IF fn = "processBassTrigger"
    THEN (IF stage = "idle" THEN {0} ELSE {0, 4, 8, 12})
    ELSE (IF stage = "idle" THEN {0, 4, 8, 12} ELSE {0, 2, 4, 6, 8, 10, 12, 14})

\* the decision of the trigger function fn on the arguments of the call, at
\* the stage given
TriggersAt(fn, stage) ==
    LET ctx == [CallContext EXCEPT !.stage = stage]
    IN IF fn = "processKickTrigger"
       THEN processKickTrigger(ctx, call.pattern).shouldTrigger
       ELSE IF fn = "processBassTrigger"
       THEN processBassTrigger(ctx, call.pattern).shouldTrigger
       ELSE processHihatTrigger(ctx, call.pattern).shouldTrigger

\* C30: for a pattern value > 0, kick, bass and hi-hat trigger on every step
\* at groove, flow and euphoria; at idle the kick triggers exactly on the steps
\* 0 and 8, the bass on step 0 and the hi-hat on the quarter-note steps; at
\* awakening kick and bass trigger exactly on the quarter-note steps and the
\* hi-hat on the even steps; a step that triggers at one stage triggers at
\* every higher stage.  The beat of the context is that of the step.
C30_StageMasks ==
    ( /\ call.done
      /\ call.fn \in TriggerFns \ {"processSnareTrigger"}
      /\ ~call.pattern.undef /\ call.pattern.num > 0 )
    => /\ call.result.shouldTrigger <=> call.a \in MaskedSteps(call.fn, call.stage)
       /\ call.result.shouldTrigger
            => \A stage \in Stages :
                   StageRank(stage) >= StageRank(call.stage)
                       => TriggersAt(call.fn, stage)

\* the kick was asked on step 4 with the pattern value 1 at the awakening
\* stage and triggered; the same call at idle does not trigger
C30_Witness ==
    /\ call.done /\ call.fn = "processKickTrigger"
    /\ call.stage = "awakening" /\ call.a = 4 /\ call.pattern = Num(1)
    /\ call.result.shouldTrigger
    /\ ~TriggersAt("processKickTrigger", "idle")

----------------------------------------------------------------------------
(* Properties of the melody voices, under SpecKeys *)

VoicesOf(layer, transpose) ==
    { v \in voices : v.layer = layer /\ v.transpose = transpose }

\* C19 as stated: for every accepted melody trigger the sub-octave voice is
\* triggered at every stage, the fifth exactly at the stages flow and euphoria,
\* and the FM voice exactly when the energy is above 0.9.
C19_Original ==
    [][ (lastOp'.op = "keyDown" /\ voices' # {}) =>
          /\ \E v \in voices' : v.layer = "subLayer"
          /\ (\E v \in voices' : v.layer = "lead" /\ v.transpose = 7)
               <=> getEnergyStage(currentEnergy) \in {"flow", "euphoria"}
          /\ (\E v \in voices' : v.layer = "fmLayer")
               <=> currentEnergy > ENERGY_VERY_HIGH
      ]_vars

\* C19: for every accepted melody trigger the lead voice is triggered; the
\* sub-octave voice is triggered exactly when the stage is not idle, the fifth
\* exactly at the stages flow and euphoria, and the FM voice exactly when the
\* energy is above 0.9.
C19_Layering ==
    [][ (lastOp'.op = "keyDown" /\ voices' # {}) =>
          /\ \E v \in voices' : v.layer = "lead" /\ v.transpose = 0
          /\ (\E v \in voices' : v.layer = "subLayer")
               <=> getEnergyStage(currentEnergy) # "idle"
          /\ (\E v \in voices' : v.layer = "lead" /\ v.transpose = 7)
               <=> getEnergyStage(currentEnergy) \in {"flow", "euphoria"}
          /\ (\E v \in voices' : v.layer = "fmLayer")
               <=> currentEnergy > ENERGY_VERY_HIGH
      ]_vars

\* a melody trigger was accepted at the idle stage and played the lead voice
\* alone
C19_Witness ==
    /\ lastOp.op = "keyDown" /\ lastOp.ok
    /\ getEnergyStage(currentEnergy) = "idle"
    /\ VoicesOf("lead", 0) # {}
    /\ VoicesOf("subLayer", 0) = {}

\* C20: every voice of an accepted melody event is scheduled at the first
\* sixteenth grid point of the transport that lies after the transport
\* position of the key event, never at that position itself, all voices of the
\* event at the same grid point; a key event while the transport is not
\* started triggers no voice.
C20_QuantizedToNextSixteenth ==
    [][ lastOp'.op = "keyDown" =>
          /\ \A v \in voices' :
                /\ v.time * 15000 > (now - transportStart) * BPM
                /\ (v.time - 1) * 15000 <= (now - transportStart) * BPM
          /\ \A v, w \in voices' : v.time = w.time
          /\ transportState # "started" => voices' = {}
      ]_vars

\* a key event at the instant the transport started, at position 0, triggered
\* several voices, all at the grid point 1
C20_Witness ==
    /\ lastOp.op = "keyDown" /\ lastOp.ok
    /\ now = transportStart
    /\ Cardinality(voices) >= 2
    /\ \A v \in voices : v.time = 1

\* C31: whenever a melody trigger plays the sub voice, its note has the name of
\* the main note and lies exactly one octave below it
C31_SubOctaveBelow ==
    \A sub \in { v \in voices : v.layer = "subLayer" } :
        \E main \in { v \in voices : v.layer = "lead" /\ v.transpose = 0 } :
            /\ sub.name = main.name
            /\ sub.octave = main.octave - 1

\* C37: a key event that is rejected, because playback is not started or the
\* key was accepted less than MIN_KEY_INTERVAL ago, leaves the energy, the two
\* pulse counters, the timestamps of the keys and lastMelodyTime as they were
\* and triggers no note; an accepted key event whose melody trigger is
\* rejected by the throttle of MIN_MELODY_INTERVAL triggers no note and leaves
\* lastMelodyTime as it was
C37_RejectedEventsDropped ==
    [][ lastOp'.op = "keyDown" =>
          /\ ~lastOp'.ok
               <=> \/ ~isPlaying
                   \/ \A k \in Keys : keyTimestamps'[k] = now
                          => now - keyTimestamps[k] < MIN_KEY_INTERVAL
          /\ ~lastOp'.ok
               => /\ energyRef' = energyRef /\ currentEnergy' = currentEnergy
                  /\ triggerCount' = triggerCount
                  /\ sparkleSignal' = sparkleSignal
                  /\ keyTimestamps' = keyTimestamps
                  /\ lastMelodyTime' = lastMelodyTime
                  /\ voices' = {}
          /\ (lastOp'.ok /\ now - lastMelodyTime < MIN_MELODY_INTERVAL)
               => /\ lastMelodyTime' = lastMelodyTime
                  /\ voices' = {}
                  /\ triggerCount' = triggerCount + 1
      ]_vars

\* a key was accepted 50 ms after the melody sounded: the key event counts,
\* the melody trigger was dropped by its throttle
C37_Witness ==
    /\ lastOp.op = "keyDown" /\ lastOp.ok
    /\ voices = {}
    /\ keyTimestamps["a"] = now
    /\ lastMelodyTime = now - ShortStep
    /\ triggerCount = 2

----------------------------------------------------------------------------
(* Properties of a run of key events from energy 0, under SpecBoost *)

\* C11 as stated: starting from energy 0 with no decay frame in between and
\* no sparkle bonus, ten accepted boosts raise the energy to exactly 0.35, and
\* the energy first reaches the groove threshold 0.40 on the 11th or 12th
\* accepted boost.  (No frame runs under SpecBoost, so the engine's energy is
\* still the energy the keys started from.)
C11_Original ==
    (currentEnergy = 0 /\ sparkleSignal = 0)
        => /\ triggerCount = 10 => energyRef = 35000
           /\ triggerCount <= 10 => energyRef < ENERGY_THRESHOLD_GROOVE
           /\ triggerCount = 12 => energyRef >= ENERGY_THRESHOLD_GROOVE

\* C11 as the code has it: the 7th, 8th and 9th boost start inside the zone
\* 0.18-0.25 and are halved, so ten accepted boosts raise the energy from 0 to
\* 0.2975, and the energy first reaches 0.40 on the 13th accepted boost.
C11_BoostChain ==
    (currentEnergy = 0 /\ sparkleSignal = 0)
        => /\ triggerCount = 6 => energyRef = 6 * ENERGY_INPUT_BASE
           /\ triggerCount = 9 => energyRef = 6 * ENERGY_INPUT_BASE
                                               + 3 * (ENERGY_INPUT_BASE \div 2)
           /\ triggerCount = 10 => energyRef = 29750
           /\ triggerCount < 13 => energyRef < ENERGY_THRESHOLD_GROOVE
           /\ triggerCount = 13 => energyRef >= ENERGY_THRESHOLD_GROOVE

\* thirteen boosts from energy 0 without a sparkle have reached the groove stage
C11_Witness ==
    /\ currentEnergy = 0 /\ sparkleSignal = 0
    /\ triggerCount = 13
    /\ energyRef = 40250

----------------------------------------------------------------------------
(* Properties of the energy controller, under SpecEnergy *)

\* C1: the energy stays in [0, 1] at all times, both the energy the
\* application tracks (energyRef) and the energy the engine holds
\* (currentEnergy), under any interleaving of key events, decay frames and
\* energy-drop ramp ticks.
C1_EnergyInRange ==
    /\ 0 <= energyRef /\ energyRef <= EnergyScale
    /\ 0 <= currentEnergy /\ currentEnergy <= EnergyScale

\* a ramp has just ended at its target while the application's energy sits at
\* 1 after a boost that the upper clamp cut
C1_Witness ==
    /\ lastOp.op = "dropTick"
    /\ ~energyDropInterval.active
    /\ currentEnergy = energyDropTarget
    /\ energyRef = EnergyScale
    /\ triggerCount > 0

\* C9 as stated: an accepted key event adds exactly ENERGY_INPUT_BASE when the
\* energy is in no resistance zone, and exactly ENERGY_INPUT_BASE times the
\* zone's multiplier, which is less than the base, when it is in a zone
\* (before the clamp at 1).
C9_Original ==
    [][ (lastOp'.op = "keyDown" /\ lastOp'.ok) =>
          LET zones == { i \in DOMAIN ENERGY_RESISTANCE_ZONES :
                           /\ ENERGY_RESISTANCE_ZONES[i].min <= energyRef
                           /\ energyRef <= ENERGY_RESISTANCE_ZONES[i].max }
          IN /\ zones = {} =>
                  energyRef' = Min(EnergyScale, energyRef + ENERGY_INPUT_BASE)
             /\ \A i \in zones :
                  LET reduced == (ENERGY_INPUT_BASE
                                  * ENERGY_RESISTANCE_ZONES[i].multiplier) \div 100
                  IN /\ reduced < ENERGY_INPUT_BASE
                     /\ energyRef' = Min(EnergyScale, energyRef + reduced)
      ]_vars

\* C9, amended: an accepted key event adds ENERGY_INPUT_BASE when the energy is
\* in no resistance zone and ENERGY_INPUT_BASE times the zone's multiplier,
\* which is less than the base, when it is in a zone; when the key event also
\* fires a sparkle, SPARKLE_ENERGY_BONUS is added on top (all before the clamp
\* at 1).
C9_BoostLaw ==
    [][ (lastOp'.op = "keyDown" /\ lastOp'.ok) =>
          LET zones == { i \in DOMAIN ENERGY_RESISTANCE_ZONES :
                           /\ ENERGY_RESISTANCE_ZONES[i].min <= energyRef
                           /\ energyRef <= ENERGY_RESISTANCE_ZONES[i].max }
              bonus == IF sparkleSignal' # sparkleSignal
                       THEN SPARKLE_ENERGY_BONUS ELSE 0
          IN /\ zones = {} =>
                  energyRef' = Min(EnergyScale, energyRef + ENERGY_INPUT_BASE + bonus)
             /\ \A i \in zones :
                  LET reduced == (ENERGY_INPUT_BASE
                                  * ENERGY_RESISTANCE_ZONES[i].multiplier) \div 100
                  IN /\ reduced < ENERGY_INPUT_BASE
                     /\ energyRef' = Min(EnergyScale, energyRef + reduced + bonus)
      ]_vars

\* the first key event, at energy 0.197 inside the zone 0.18-0.25, fired a
\* sparkle: 0.197 + 0.035 * 0.5 + 0.04
C9_Witness ==
    /\ lastOp.op = "keyDown" /\ lastOp.ok
    /\ triggerCount = 1
    /\ sparkleSignal = 1
    /\ energyRef = 19700 + 1750 + SPARKLE_ENERGY_BONUS

\* C10 as stated: one decay frame lowers any energy of a stage by that stage's
\* rate, the rate being the one of the stage the energy is in at the start of
\* the frame.
C10_Original ==
    [][ (lastOp'.op = "animate" /\ lastOp'.ok) =>
          LET stage == getEnergyStage(energyRef)
              rate == CASE stage = "euphoria" -> ENERGY_DECAY_EUPHORIA
                        [] stage = "flow" -> ENERGY_DECAY_FLOW
                        [] stage = "groove" -> ENERGY_DECAY_GROOVE
                        [] stage = "awakening" -> ENERGY_DECAY_AWAKENING
                        [] stage = "idle" -> ENERGY_DECAY_IDLE
          IN energyRef - energyRef' = rate
      ]_vars

\* C10, amended: one decay frame lowers any energy of a stage by that stage's
\* rate, or to 0 when the energy is smaller than the rate; the rate is the one
\* of the stage the energy is in at the start of the frame, so crossing a
\* stage boundary changes the rate only from the next frame on.
C10_DecayLaw ==
    [][ (lastOp'.op = "animate" /\ lastOp'.ok) =>
          LET stage == getEnergyStage(energyRef)
              rate == CASE stage = "euphoria" -> ENERGY_DECAY_EUPHORIA
                        [] stage = "flow" -> ENERGY_DECAY_FLOW
                        [] stage = "groove" -> ENERGY_DECAY_GROOVE
                        [] stage = "awakening" -> ENERGY_DECAY_AWAKENING
                        [] stage = "idle" -> ENERGY_DECAY_IDLE
          IN energyRef' = Max(0, energyRef - rate)
      ]_vars

\* two frames from the euphoria threshold: the first at the euphoria rate
\* crosses into flow, the second runs at the flow rate
C10_Witness ==
    /\ lastOp.op = "animate" /\ lastOp.ok
    /\ triggerCount = 0
    /\ energyRef = ENERGY_THRESHOLD_EUPHORIA - ENERGY_DECAY_EUPHORIA - ENERGY_DECAY_FLOW

\* C36: with no key boost, the decay frames never raise the energy, a frame at
\* energy 0 changes nothing, and after finitely many frames the energy is 0
\* and stays 0
C36_DecayReachesZero ==
    /\ [][ /\ energyRef' <= energyRef
           /\ energyRef = 0 => (energyRef' = 0 /\ currentEnergy' = currentEnergy)
         ]_vars
    /\ <>[](energyRef = 0)

\* the frame that brings the highest sampled energy down to 0, after 659
\* frames
C36_Witness ==
    /\ lastOp.op = "animate" /\ lastOp.ok
    /\ energyRef = 0 /\ currentEnergy = 0
    /\ now = StartTime + 659 * FramePeriod

----------------------------------------------------------------------------
(* Properties of the style director, under SpecDirector *)

\* C2: onBar never starts a transition while barsInCurrentStyle, the bars
\* notified since the current style became current, is below
\* minBarsBeforeTransition (16).
C2_NoEarlyTransition ==
    [][ (/\ lastOp'.op = "onBar"
         /\ ~transitionState.isTransitioning
         /\ transitionState'.isTransitioning)
        => barsInCurrentStyle' >= minBarsBeforeTransition ]_vars

\* the sixteenth notification of a style started a transition
C2_Witness ==
    /\ lastOp.op = "onBar"
    /\ events = << "transitionStart", "energyDrop" >>
    /\ transitionState.isTransitioning
    /\ barsInCurrentStyle = minBarsBeforeTransition

\* C3: when the director is Stable and an onBar notification brings
\* barsInCurrentStyle to maxBarsBeforeTransition (32), a transition starts
\* within that notification whatever the energy and the random draw; so after
\* onBar returns the director is never Stable with barsInCurrentStyle >= 32.
C3_ForcedTransition ==
    [][ lastOp'.op = "onBar" =>
          /\ (/\ ~transitionState.isTransitioning
              /\ barsInCurrentStyle' >= maxBarsBeforeTransition)
             => /\ transitionState'.isTransitioning
                /\ transitionState'.startBar = totalBars'
                /\ events' = << "transitionStart", "energyDrop" >>
          /\ ~(/\ ~transitionState'.isTransitioning
               /\ barsInCurrentStyle' >= maxBarsBeforeTransition)
      ]_vars

\* the thirty-second notification of a style, at energy 0, started a transition
C3_Witness ==
    /\ lastOp = [op |-> "onBar", ok |-> TRUE, arg |-> 0, draw |-> NoDraw]
    /\ events = << "transitionStart", "energyDrop" >>
    /\ transitionState.isTransitioning
    /\ barsInCurrentStyle = maxBarsBeforeTransition

\* C12: in a Stable state, an onBar notification that brings
\* barsInCurrentStyle to a value from 16 to 31 starts a transition if and only
\* if the energy is at least 0.8 and the random draw is below
\* 0.05 + 0.15 * (barsInCurrentStyle - 16) / 16 (the base chance 0.05 at 16,
\* rising linearly); with energy below 0.8 no transition starts, whatever the
\* draw.  Draws are thousandths, so the comparison is made in units of 1/16000.
C12_TransitionChance ==
    [][ (/\ lastOp'.op = "onBar"
         /\ ~transitionState.isTransitioning
         /\ barsInCurrentStyle' >= minBarsBeforeTransition
         /\ barsInCurrentStyle' < maxBarsBeforeTransition)
        => /\ transitionState'.isTransitioning
              <=> /\ lastOp'.arg >= 80000
                  /\ lastOp'.draw # NoDraw
                  /\ lastOp'.draw * 16
                       < 50 * 16 + 150 * (barsInCurrentStyle' - 16)
           /\ barsInCurrentStyle' = minBarsBeforeTransition
                => (transitionState'.isTransitioning
                      <=> (lastOp'.arg >= 80000 /\ lastOp'.draw < 50))
           /\ lastOp'.arg < 80000 => ~transitionState'.isTransitioning
      ]_vars

\* the twenty-fifth notification of a style, at energy 0.8 and with the draw
\* 0.125 (the chance of the notification before it), started a transition
C12_Witness ==
    /\ lastOp = [op |-> "onBar", ok |-> TRUE, arg |-> 80000, draw |-> 125]
    /\ barsInCurrentStyle = 25
    /\ transitionState.isTransitioning
    /\ transitionState.startBar = totalBars

\* C4: while a transition is in flight and onBar is called with consecutive
\* bar numbers, progress never decreases from one notification to the next,
\* and the transition object is set to null exactly once, in the notification
\* where progress first reaches 1 (barNumber = startBar +
\* transitionDurationBars).
C4_ProgressMonotone ==
    [][ (lastOp'.op = "onBar" /\ transitionState.isTransitioning) =>
          IF totalBars' >= transitionState.startBar + transitionDurationBars
          THEN /\ totalBars' = transitionState.startBar + transitionDurationBars
               /\ transitionState' = NoTransition
               /\ "transitionComplete" \in { events'[i] : i \in DOMAIN events' }
          ELSE /\ transitionState'.isTransitioning
               /\ transitionState'.progress >= transitionState.progress
               /\ transitionState'.progress < 1000
               /\ transitionState' = [transitionState EXCEPT
                                        !.progress = transitionState'.progress]
      ]_vars

\* a transition in flight is half way one bar after the bar it started at
C4_Witness ==
    /\ lastOp.op = "onBar"
    /\ transitionState.isTransitioning
    /\ transitionState.progress = 500
    /\ totalBars = transitionState.startBar + 1

\* C5: in the onBar notification in which progress reaches 1, and in no other
\* notification, currentStyle becomes the transition's toStyle,
\* barsInCurrentStyle becomes 0 and transitionState becomes null, all within
\* that notification; before it currentStyle is still the fromStyle.
C5_CompletionSwitch ==
    [][ /\ transitionState'.isTransitioning =>
             currentStyle' = transitionState'.fromStyle
        /\ lastOp'.op = "onBar" =>
             IF /\ transitionState.isTransitioning
                /\ totalBars' - transitionState.startBar >= transitionDurationBars
             THEN /\ currentStyle' = transitionState.toStyle
                  /\ barsInCurrentStyle' = 0
                  /\ transitionState' = NoTransition
             ELSE /\ currentStyle' = currentStyle
                  /\ barsInCurrentStyle' = barsInCurrentStyle + 1
                  /\ transitionState.isTransitioning => transitionState'.isTransitioning
      ]_vars

\* a notification has just completed a transition from the first style
C5_Witness ==
    /\ lastOp.op = "onBar"
    /\ events = << "styleChange", "transitionComplete" >>
    /\ currentStyle # STYLES[1]
    /\ barsInCurrentStyle = 0
    /\ transitionState = NoTransition
    /\ totalBars = minBarsBeforeTransition + transitionDurationBars

\* C17: startTransition and forceStyle handle a style identifier that is not
\* in the catalog by falling back to the first style of the catalog, as the
\* constructor does: the transition goes to it, the forced style is it.
C17_UnknownStyleFallback ==
    [][ /\ (lastOp'.op = "startTransition" /\ ~lastOp'.ok)
            => transitionState'.toStyle = InitialStyle("bogus")
        /\ (lastOp'.op = "forceStyle" /\ ~lastOp'.ok)
            => currentStyle' = InitialStyle("bogus")
      ]_vars

\* C6 as stated: calling forceStyle while a transition is in flight clears the
\* TransitionState at once and fires the style-change observer exactly once
\* and the transition-complete observer not at all; no later onBar completes
\* the discarded transition.
C6_Original ==
    [][ (lastOp'.op = "forceStyle" /\ transitionState.isTransitioning) =>
          /\ transitionState' = NoTransition
          /\ events' = << "styleChange" >>
      ]_vars

\* C6 for the identifiers of the catalog: the call clears the TransitionState,
\* switches the style and fires style-change once; transition-complete fires
\* only in an onBar notification that ends a transition then in flight.
C6_KnownStyle ==
    [][ /\ (/\ lastOp'.op = "forceStyle" /\ lastOp'.ok
            /\ transitionState.isTransitioning)
           => /\ transitionState' = NoTransition
              /\ barsInCurrentStyle' = 0
              /\ events' = << "styleChange" >>
        /\ "transitionComplete" \in { events'[i] : i \in DOMAIN events' }
           => \/ UNCHANGED vars
              \/ /\ lastOp'.op = "onBar"
                 /\ transitionState.isTransitioning
                 /\ currentStyle' = transitionState.toStyle
      ]_vars

----------------------------------------------------------------------------
(* Properties of the style interpolation, under SpecInterp *)

\* v lies between a and b
Between(v, a, b) ==
    \/ NumLeq(a, v) /\ NumLeq(v, b)
    \/ NumLeq(b, v) /\ NumLeq(v, a)

\* v and w are the results at a progress and at a later progress
Monotone(fromVal, toVal, v, w) ==
    IF NumLeq(fromVal, toVal) THEN NumLeq(v, w) ELSE NumLeq(w, v)

\* the results of the call in interp at the later sampled progresses
LaterValues ==
    { interpolateStyleValue(StyleOf(interp.fromStyle), StyleOf(interp.toStyle),
                            Decimal(q, 3), interp.key) :
        q \in { r \in ProgressSamples : r >= interp.progress } }

\* a numeric result is between the endpoints and monotonic in progress
NumericShape(fromVal, toVal) ==
    /\ Between(interp.value, fromVal, toVal)
    /\ \A w \in LaterValues : Monotone(fromVal, toVal, interp.value, w)

\* C7 as stated: for every pair of styles and every field, interpolation
\* returns exactly the from-style's value at progress 0 and exactly the
\* to-style's value at progress 1; a numeric field's result is monotonic in
\* progress and stays between the two endpoint values for progress in [0, 1].
C7_Original ==
    (interp.kind = "call" /\ interp.done) =>
        /\ interp.progress = 0 =>
             interp.value = StyleOf(interp.fromStyle)[interp.key]
        /\ interp.progress = 1000 =>
             interp.value = StyleOf(interp.toStyle)[interp.key]
        /\ interp.key \in NumberKeys =>
             NumericShape(StyleOf(interp.fromStyle)[interp.key],
                          StyleOf(interp.toStyle)[interp.key])

\* C7 without the exact to-value of a numeric field at progress 1: the
\* from-value at 0 for every field, the to-value at 1 for every field that is
\* not a number, and a numeric result between the endpoints and monotonic.
C7_ExceptNumericEnd ==
    (interp.kind = "call" /\ interp.done) =>
        /\ interp.progress = 0 =>
             interp.value = StyleOf(interp.fromStyle)[interp.key]
        /\ (interp.progress = 1000 /\ interp.key \notin NumberKeys) =>
             interp.value = StyleOf(interp.toStyle)[interp.key]
        /\ interp.key \in NumberKeys =>
             NumericShape(StyleOf(interp.fromStyle)[interp.key],
                          StyleOf(interp.toStyle)[interp.key])

\* C8: for a field whose endpoint values are not both numbers, the
\* interpolated value is the from-style's value for every progress < 0.5 and
\* the to-style's value for every progress >= 0.5, never a blend; with
\* transitionDurationBars = 2 the director already returns the destination
\* value of such a field after the first bar notification that follows the
\* start of the transition.
C8_DiscreteSwitch ==
    (interp.done /\ interp.key \notin NumberKeys) =>
        /\ interp.kind = "call" =>
             interp.value = IF interp.progress < 500
                            THEN StyleOf(interp.fromStyle)[interp.key]
                            ELSE StyleOf(interp.toStyle)[interp.key]
        /\ (/\ interp.kind = "director"
            /\ transitionState.isTransitioning
            /\ totalBars = transitionState.startBar + 1)
           => interp.value = StyleOf(transitionState.toStyle)[interp.key]

\* the director was asked for the delay time after the first notification of
\* a transition between styles of different delay times
C8_Witness ==
    /\ interp.done
    /\ interp.kind = "director"
    /\ interp.key = "delayTime"
    /\ transitionState.isTransitioning
    /\ totalBars = transitionState.startBar + 1
    /\ interp.value = StyleOf(transitionState.toStyle).delayTime
    /\ interp.value # StyleOf(transitionState.fromStyle).delayTime


(***************************************************************************)
(* Properties of the transitions of the style director, under SpecDirector *)
(***************************************************************************)

\* C26: an onBar call that starts a transition fires transition-start(from, to)
\* and then the energy-drop request, the onBar call that completes it fires
\* style-change(new style, old style) and then transition-complete(new style),
\* and every other onBar call fires no observer, so each fires exactly once
C26_ObserverOrder ==
    [][ lastOp'.op = "onBar" =>
          IF ~transitionState.isTransitioning /\ transitionState'.isTransitioning
          THEN /\ events' = << "transitionStart", "energyDrop" >>
               /\ eventArgs'[1] = <<currentStyle, transitionState'.toStyle>>
               /\ transitionState'.fromStyle = currentStyle
          ELSE IF transitionState.isTransitioning /\ ~transitionState'.isTransitioning
          THEN /\ events' = << "styleChange", "transitionComplete" >>
               /\ eventArgs'[1] = <<currentStyle', currentStyle>>
               /\ eventArgs'[2][1] = currentStyle'
               /\ currentStyle' = transitionState.toStyle
          ELSE /\ events' = << >>
               /\ transitionState'.isTransitioning = transitionState.isTransitioning
      ]_vars

\* an onBar call has completed a transition and reported the new and the old style
C26_Witness ==
    /\ lastOp.op = "onBar"
    /\ events = << "styleChange", "transitionComplete" >>
    /\ eventArgs[1][1] = currentStyle
    /\ eventArgs[1][2] # currentStyle
    /\ barsInCurrentStyle = 0
\* the last operation fired the transition-start hook
TransitionStarted ==
    /\ lastOp.op \in {"onBar", "startTransition"}
    /\ events # << >>
    /\ events[1] = "transitionStart"

\* C27: while a transition is in flight no call fires transition-start again;
\* a second one can only start after the completion or a forceStyle
C27_SinglePendingTransition ==
    [][ transitionState.isTransitioning => ~TransitionStarted' ]_vars

\* C28 as stated: a transition in flight leads to another style than the one it
\* leaves
C28_Original ==
    transitionState.isTransitioning
        => transitionState.toStyle # transitionState.fromStyle

\* C28: a transition leaves the current style; its target is that same style
\* exactly when startTransition was called with the identifier of the current
\* style, so every other transition, once completed, changes the current style
C28_TargetDiffers ==
    [][ /\ transitionState'.isTransitioning
            => transitionState'.fromStyle = currentStyle'
        /\ TransitionStarted'
            => ( transitionState'.toStyle = transitionState'.fromStyle
                 <=> /\ lastOp'.op = "startTransition"
                     /\ lastOp'.arg = FindStyle(currentStyle) )
        /\ (lastOp'.op = "onBar" /\ events' # << >> /\ events'[1] = "styleChange")
            => /\ currentStyle' = transitionState.toStyle
               /\ currentStyle' # currentStyle
                    <=> transitionState.toStyle # transitionState.fromStyle
      ]_vars

\* a transition with a random target is in flight, away from a style that an
\* earlier transition led to
C28_Witness ==
    /\ TransitionStarted
    /\ lastOp.arg = 0
    /\ transitionState.isTransitioning
    /\ transitionState.toStyle # transitionState.fromStyle
    /\ currentStyle # STYLES[1]

\* C38: with bars notified in order, barsInCurrentStyle counts the bar
\* notifications since the last completion; a completion comes at least
\* transitionDurationBars notifications after the start of its transition; and
\* onBar starts a transition on the 16th to the 32nd notification after the
\* completion, and never leaves the style stable beyond the 32nd.  Two
\* consecutive starts by onBar with a completion in between are therefore at
\* least 2 + 16 = 18 notifications apart.
C38_StartWindow ==
    [][ lastOp'.op = "onBar" =>
          /\ totalBars' = totalBars + 1
          /\ IF transitionState.isTransitioning /\ ~transitionState'.isTransitioning
             THEN /\ barsInCurrentStyle' = 0
                  /\ totalBars' - transitionState.startBar >= transitionDurationBars
             ELSE barsInCurrentStyle' = barsInCurrentStyle + 1
          /\ (~transitionState.isTransitioning /\ transitionState'.isTransitioning)
               => /\ barsInCurrentStyle' >= minBarsBeforeTransition
                  /\ barsInCurrentStyle' <= maxBarsBeforeTransition
                  /\ transitionState'.startBar = totalBars'
          /\ ~transitionState'.isTransitioning
               => barsInCurrentStyle' < maxBarsBeforeTransition
          /\ minBarsBeforeTransition + transitionDurationBars = 18
      ]_vars

\* onBar started a transition on the 16th bar notification after the
\* completion of the transition before
C38_Witness ==
    /\ TransitionStarted /\ lastOp.op = "onBar"
    /\ barsInCurrentStyle = minBarsBeforeTransition
    /\ totalBars > barsInCurrentStyle
    /\ currentStyle # STYLES[1]

(***************************************************************************)
(* Properties of the director under arbitrary bar numbers, under SpecBars  *)
(***************************************************************************)

\* C29: the progress of a transition in flight lies between 0 and 1, whatever
\* bar numbers onBar is called with, a bar number below the transition's
\* startBar included
C29_ProgressInRange ==
    transitionState.isTransitioning
        => transitionState.progress >= 0 /\ transitionState.progress <= 1000

(***************************************************************************)
(* Properties of the riser and the impact, under SpecFrame                 *)
(***************************************************************************)

\* C34: while the transport runs, a call that fires transition-start starts a
\* riser (it sets isPlaying and arms the reset timeout from the time of the
\* call), and a call that fires transition-complete sounds the impact at the
\* time of the call
C34_RiserAndImpact ==
    [][ (isInitialized /\ transportState = "started") =>
          /\ TransitionStarted'
               => /\ riser'.isPlaying
                  /\ riser'.resetAt = now + RiserDuration + 500
          /\ (lastOp'.op = "onBar" /\ events' # << >>
                 /\ events'[Len(events')] = "transitionComplete")
               => riser'.lastImpact = now
      ]_vars
----------------------------------------------------------------------------
(* Properties of init(), under SpecInit *)

\* C39: whatever number of init() calls is made, and also when a second call
\* is made while the first is suspended at its await, the engine schedules
\* the rhythm loop at most once
C39_SingleRhythmLoop == rhythmLoops <= 1

----------------------------------------------------------------------------
(* Properties of the energy-drop ramp, under SpecEnergy *)

\* C40: every value a tick of an energy-drop ramp writes to the engine's
\* energy is at most the energy the engine had when the ramp began, whatever
\* that energy was
C40_RampNeverRaises ==
    [][ lastOp'.op = "dropTick"
          => currentEnergy' <= energyDropInterval.startEnergy ]_vars

====
